---- MODULE Spec2Model ----
(***************************************************************************)
(* Live scoring-event reconciliation engine of fpl-buddy (src/src/main.cpp) *)
(* as a state machine: the per-player table lastPickStates, one polling     *)
(* pass over a roster (detectAndNotifyPointChangesFromBreakdown, "Mode A",  *)
(* or detectAndNotifyPointChanges, "Mode B"), the scoring rule table and    *)
(* the bonus resolution adjustedLivePointsWithProjectedBonus.               *)
(***************************************************************************)
EXTENDS Integers, Sequences, FiniteSets, TLC

(* ------------------------------------------------------------------ *)
(* Bounds of the model                                                  *)
(* ------------------------------------------------------------------ *)
\* Slots of lastPickStates: 16 in the source (main.cpp:266), scaled down.
TableSlots == 2
\* Capacity of TeamSnapshot::picks: 16 in the source (main.cpp:241), scaled
\* down.
PicksCapacity == 2
\* Gameweeks the upstream API may report: 1..MaxGw.
MaxGw == 2
\* Element ids the upstream API may list in a roster: 1..MaxElement.
MaxElement == 3

\* Entries of UiRuntimeState::recentEvents: 24 in the source (main.cpp:45),
\* scaled down.
kMaxUiEvents == 2
\* Entries of UiRuntimeState::popupQueue: 8 in the source (main.cpp:46),
\* scaled down.
kMaxPopupEvents == 2
\* Rows of UiRuntimeState::squadRows (main.cpp:47).
kMaxSquadRows == 16
\* Polls of fplTask and serial command lines followed by the specification
\* of the tasks.
MaxPolls == 2
MaxCommands == 1
\* Serial command lines followed by the specification of the demo
\* commands: a seed, a "demo on" and one more.
MaxDemoCommands == 3
\* Takes of a mutex that run into their timeout in one behaviour of the
\* specification of the tasks; a take beyond them waits for the give.
MaxTimeouts == 1
\* Calls of pushUiEvent and clearUiEvents followed by the specification of
\* the UI: more than the recent-events list and the popup ring hold.
MaxSinkCalls == 4
\* The popup timer, 4000 ms in the source (main.cpp:3415), and the range of
\* millis(), 2^32 in the source, both scaled down: the clock wraps.
PopupMs == 2
MillisModulus == 8

Slots == 1..TableSlots
Gws == 1..MaxGw
Elements == 1..MaxElement
\* element_type values of the bootstrap data: 1=GK 2=DEF 3=MID 4=FWD, and
\* 0 / 5 as the unrecognised values (no metadata, or out of range).
ElementTypes == 0..5

(* ------------------------------------------------------------------ *)
(* TeamPick::LiveStats                                                  *)
(* ------------------------------------------------------------------ *)
CounterFields ==
    {"totalPoints", "minutes", "goalsScored", "assists", "cleanSheets",
     "goalsConceded", "ownGoals", "penaltiesSaved", "penaltiesMissed",
     "yellowCards", "redCards", "saves", "bonus", "defensiveContributions"}

BreakdownFields ==
    {"brMinutesPts", "brGoalsPts", "brAssistsPts", "brCleanSheetPts",
     "brGoalsConcededPts", "brOwnGoalPts", "brPenSavedPts", "brPenMissedPts",
     "brYellowPts", "brRedPts", "brSavesPts", "brBonusPts", "brDefContribPts",
     "brOtherPts"}

\* LiveStats{}: every member defaults to 0.
LiveStats ==
    [totalPoints |-> 0, minutes |-> 0, goalsScored |-> 0, assists |-> 0,
     cleanSheets |-> 0, goalsConceded |-> 0, ownGoals |-> 0,
     penaltiesSaved |-> 0, penaltiesMissed |-> 0, yellowCards |-> 0,
     redCards |-> 0, saves |-> 0, bonus |-> 0, defensiveContributions |-> 0,
     brMinutesPts |-> 0, brGoalsPts |-> 0, brAssistsPts |-> 0,
     brCleanSheetPts |-> 0, brGoalsConcededPts |-> 0, brOwnGoalPts |-> 0,
     brPenSavedPts |-> 0, brPenMissedPts |-> 0, brYellowPts |-> 0,
     brRedPts |-> 0, brSavesPts |-> 0, brBonusPts |-> 0,
     brDefContribPts |-> 0, brOtherPts |-> 0]

\* LastPickState{}: valid = false, gw = 0, elementId = 0, live = LiveStats{}.
LastPickState == [valid |-> FALSE, gw |-> 0, elementId |-> 0, live |-> LiveStats]

\* A TeamPick as the engine and the totals read it: identity, snapshot, role
\* and lineup multiplier.
TeamPick(elementId, elementType, live, multiplier) ==
    [elementId |-> elementId, live |-> live, elementType |-> elementType,
     multiplier |-> multiplier]

\* SharedUiState{} as far as the polling task writes it here: gameweek
\* points, status text, gameweek-state text and freshness flag.
SharedUiState ==
    [gwPoints |-> 0, statusText |-> "Booting...",
     gwStateText |-> "GW live: ? | next: --", isStale |-> FALSE]

\* UiEventItem{}: the zeroed entry of an event array.
UiEventItem ==
    [player |-> 0, label |-> "", delta |-> 0, totalAfter |-> 0,
     totalBefore |-> 0, isGk |-> FALSE]

\* UiRuntimeState{}, also the result of memset(&out, 0, sizeof(out)): the
\* recent events (recentEvents[0..recentEventCount)), the popup ring, the
\* points of the squad rows and the two version counters.
UiRuntimeState ==
    [recentEvents |-> <<>>,
     popupQueue |-> [i \in 0..(kMaxPopupEvents - 1) |-> UiEventItem],
     popupHead |-> 0, popupTail |-> 0, popupCount |-> 0,
     squadRows |-> <<>>, eventVersion |-> 0, squadVersion |-> 0]

\* DemoState{} as far as the serial commands followed here use it.
DemoState ==
    [enabled |-> FALSE, seeded |-> FALSE, picks |-> <<>>, gwPoints |-> 0,
     seededPicks |-> <<>>, seededGwPoints |-> 0]

\* sharedUiMutex, uiRuntimeMutex and demoMutex, and the three tasks that
\* take them: fplTask, uiTask and the loop task (processSerialInput).
Mutexes == {"sharedUiMutex", "uiRuntimeMutex", "demoMutex"}
Tasks == {"fplTask", "uiTask", "loopTask"}

\* One call a task has still to make in its current iteration or command:
\* the function, its text argument and its integer argument.
Call(fn, text, n) == [fn |-> fn, text |-> text, n |-> n]

\* No JSON fetch made yet.  A fetch: the function, the attempt of its loop
\* (and of the loop of fetchUrlToPsramBuffer under it), the outcome of each
\* http.GET() made so far and the value returned ("" while it runs).
HttpFetch ==
    [fn |-> "", attempt |-> 0, bufferAttempt |-> 0, gets |-> <<>>,
     returned |-> ""]

\* No call of adjustedLivePointsWithProjectedBonus yet.
NoBonusResult ==
    [called |-> FALSE, points |-> 0, projectedBonusAdded |-> FALSE,
     bonusAlreadyIncluded |-> FALSE]

\* Return value and out-parameters of adjustedLivePointsWithProjectedBonus.
BonusResult(points, projected, included) ==
    [called |-> TRUE, points |-> points, projectedBonusAdded |-> projected,
     bonusAlreadyIncluded |-> included]

\* C integer division truncates toward zero.
CDiv(a, b) == IF a >= 0 THEN a \div b ELSE -((-a) \div b)

abs(x) == IF x < 0 THEN -x ELSE x

(* ------------------------------------------------------------------ *)
(* Scoring rule table                                                   *)
(* ------------------------------------------------------------------ *)
\* Variant: a forward's goal valued like a midfielder's.
goalPointsForwardAsMidfielder(elementType) ==
    IF elementType = 1 THEN 10
    ELSE IF elementType = 2 THEN 6
    ELSE IF elementType = 3 THEN 5
    ELSE IF elementType = 4 THEN 5
    ELSE 0

goalPointsForElementType(elementType) ==
    IF elementType = 1 THEN 10
    ELSE IF elementType = 2 THEN 6
    ELSE IF elementType = 3 THEN 5
    ELSE IF elementType = 4 THEN 4
    ELSE 0

cleanSheetPointsForElementType(elementType) ==
    IF elementType = 1 \/ elementType = 2 THEN 4
    ELSE IF elementType = 3 THEN 1
    ELSE 0

defensiveContributionThresholdForElementType(elementType) ==
    IF elementType = 2 THEN 10
    ELSE IF elementType = 3 \/ elementType = 4 THEN 12
    ELSE 0

savesThresholdForElementType(elementType) ==
    IF elementType = 1 THEN 3 ELSE 0

\* computeExpectedPointsExcludingBonus(p, okOut): [ok, pts].
computeExpectedPointsExcludingBonus(p) ==
    IF p.elementType < 1 \/ p.elementType > 4
    THEN [ok |-> FALSE, pts |-> 0]
    ELSE
      LET l == p.live
          t == p.elementType
          dcThreshold == defensiveContributionThresholdForElementType(t)
      IN [ok |-> TRUE,
          pts |->
              (IF l.minutes > 0 THEN 1 ELSE 0)
            + (IF l.minutes >= 60 THEN 1 ELSE 0)
            + goalPointsForElementType(t) * l.goalsScored
            + 3 * l.assists
            + cleanSheetPointsForElementType(t) * l.cleanSheets
            + (IF t = 1 THEN CDiv(l.saves, 3) + 5 * l.penaltiesSaved ELSE 0)
            - (IF t = 1 \/ t = 2 THEN CDiv(l.goalsConceded, 2) ELSE 0)
            - 2 * l.penaltiesMissed
            - l.yellowCards
            - 3 * l.redCards
            - 2 * l.ownGoals
            + (IF dcThreshold > 0
               THEN 2 * CDiv(l.defensiveContributions, dcThreshold) ELSE 0)]

(* ------------------------------------------------------------------ *)
(* Bonus resolution                                                     *)
(* ------------------------------------------------------------------ *)
\* Variant: the early return taken only for a negative bonus.
adjustedLivePointsEarlyReturnOnNegative(p) ==
    LET l == p.live
        exp == computeExpectedPointsExcludingBonus(p)
        noBonus == exp.pts
        withBonus == noBonus + l.bonus
        distNoBonus == abs(l.totalPoints - noBonus)
        distWithBonus == abs(l.totalPoints - withBonus)
    IN IF l.bonus < 0 THEN BonusResult(l.totalPoints, FALSE, TRUE)
       ELSE IF ~exp.ok THEN BonusResult(l.totalPoints, FALSE, TRUE)
       ELSE IF l.totalPoints = withBonus
            THEN BonusResult(l.totalPoints, FALSE, TRUE)
       ELSE IF l.totalPoints = noBonus
            THEN BonusResult(l.totalPoints + l.bonus, TRUE, FALSE)
       ELSE IF distNoBonus <= distWithBonus
            THEN BonusResult(l.totalPoints + l.bonus, TRUE, FALSE)
       ELSE BonusResult(l.totalPoints, FALSE, TRUE)

\* Variant: withBonus computed without adding the bonus.
adjustedLivePointsWithBonusNotAdded(p) ==
    LET l == p.live
        exp == computeExpectedPointsExcludingBonus(p)
        noBonus == exp.pts
        withBonus == noBonus
        distNoBonus == abs(l.totalPoints - noBonus)
        distWithBonus == abs(l.totalPoints - withBonus)
    IN IF l.bonus <= 0 THEN BonusResult(l.totalPoints, FALSE, TRUE)
       ELSE IF ~exp.ok THEN BonusResult(l.totalPoints, FALSE, TRUE)
       ELSE IF l.totalPoints = withBonus
            THEN BonusResult(l.totalPoints, FALSE, TRUE)
       ELSE IF l.totalPoints = noBonus
            THEN BonusResult(l.totalPoints + l.bonus, TRUE, FALSE)
       ELSE IF distNoBonus <= distWithBonus
            THEN BonusResult(l.totalPoints + l.bonus, TRUE, FALSE)
       ELSE BonusResult(l.totalPoints, FALSE, TRUE)

\* Variant: a tie of the two distances is resolved as already included.
adjustedLivePointsStrictTieBreak(p) ==
    LET l == p.live
        exp == computeExpectedPointsExcludingBonus(p)
        noBonus == exp.pts
        withBonus == noBonus + l.bonus
        distNoBonus == abs(l.totalPoints - noBonus)
        distWithBonus == abs(l.totalPoints - withBonus)
    IN IF l.bonus <= 0 THEN BonusResult(l.totalPoints, FALSE, TRUE)
       ELSE IF ~exp.ok THEN BonusResult(l.totalPoints, FALSE, TRUE)
       ELSE IF l.totalPoints = withBonus
            THEN BonusResult(l.totalPoints, FALSE, TRUE)
       ELSE IF l.totalPoints = noBonus
            THEN BonusResult(l.totalPoints + l.bonus, TRUE, FALSE)
       ELSE IF distNoBonus < distWithBonus
            THEN BonusResult(l.totalPoints + l.bonus, TRUE, FALSE)
       ELSE BonusResult(l.totalPoints, FALSE, TRUE)

\* Variant: the result of the role check is not consulted.
adjustedLivePointsIgnoringCanScore(p) ==
    LET l == p.live
        exp == computeExpectedPointsExcludingBonus(p)
        noBonus == exp.pts
        withBonus == noBonus + l.bonus
        distNoBonus == abs(l.totalPoints - noBonus)
        distWithBonus == abs(l.totalPoints - withBonus)
    IN IF l.bonus <= 0 THEN BonusResult(l.totalPoints, FALSE, TRUE)
       ELSE IF l.totalPoints = withBonus
            THEN BonusResult(l.totalPoints, FALSE, TRUE)
       ELSE IF l.totalPoints = noBonus
            THEN BonusResult(l.totalPoints + l.bonus, TRUE, FALSE)
       ELSE IF distNoBonus <= distWithBonus
            THEN BonusResult(l.totalPoints + l.bonus, TRUE, FALSE)
       ELSE BonusResult(l.totalPoints, FALSE, TRUE)

\* Variant: the projecting branches leave bonusAlreadyIncluded set.
adjustedLivePointsBothFlagsSet(p) ==
    LET l == p.live
        exp == computeExpectedPointsExcludingBonus(p)
        noBonus == exp.pts
        withBonus == noBonus + l.bonus
        distNoBonus == abs(l.totalPoints - noBonus)
        distWithBonus == abs(l.totalPoints - withBonus)
    IN IF l.bonus <= 0 THEN BonusResult(l.totalPoints, FALSE, TRUE)
       ELSE IF ~exp.ok THEN BonusResult(l.totalPoints, FALSE, TRUE)
       ELSE IF l.totalPoints = withBonus
            THEN BonusResult(l.totalPoints, FALSE, TRUE)
       ELSE IF l.totalPoints = noBonus
            THEN BonusResult(l.totalPoints + l.bonus, TRUE, TRUE)
       ELSE IF distNoBonus <= distWithBonus
            THEN BonusResult(l.totalPoints + l.bonus, TRUE, TRUE)
       ELSE BonusResult(l.totalPoints, FALSE, TRUE)

\* adjustedLivePointsWithProjectedBonus(p, projectedBonusAddedOut,
\* bonusAlreadyIncludedOut): the return value and the two out-parameters.
adjustedLivePointsWithProjectedBonus(p) ==
    LET l == p.live
        exp == computeExpectedPointsExcludingBonus(p)
        noBonus == exp.pts
        withBonus == noBonus + l.bonus
        distNoBonus == abs(l.totalPoints - noBonus)
        distWithBonus == abs(l.totalPoints - withBonus)
    IN IF l.bonus <= 0 THEN BonusResult(l.totalPoints, FALSE, TRUE)
       ELSE IF ~exp.ok THEN BonusResult(l.totalPoints, FALSE, TRUE)
       ELSE IF l.totalPoints = withBonus
            THEN BonusResult(l.totalPoints, FALSE, TRUE)
       ELSE IF l.totalPoints = noBonus
            THEN BonusResult(l.totalPoints + l.bonus, TRUE, FALSE)
       ELSE IF distNoBonus <= distWithBonus
            THEN BonusResult(l.totalPoints + l.bonus, TRUE, FALSE)
       ELSE BonusResult(l.totalPoints, FALSE, TRUE)

(* ------------------------------------------------------------------ *)
(* State                                                                *)
(* ------------------------------------------------------------------ *)
VARIABLES
    mode,            \* kUseServerEventBreakdown of the build: "A" = breakdown, "B" = inferred
    lastPickStates,  \* static LastPickState lastPickStates[]
    snapshotGw,      \* snapshot.currentGw of the latest successful poll (0: none yet)
    picks,           \* snapshot.picks[0..pickCount) of the latest successful poll
    events,          \* the notifyEvent calls of the latest pass, in call order
    passLog,         \* per pick of the latest pass: what the loop body did
    bonusPick,       \* argument of the latest bonus resolution
    bonusResult,     \* its result (return value and out-parameters)
    pc,              \* position of fplTask in its poll cycle
    gwPoints,        \* fplTask's local gwPoints of the current cycle
    sharedUiState,   \* static SharedUiState sharedUiState
    lastSuccessMs,   \* fplTask's lastSuccessMs: 0 = no success yet, 1 = some time
    liveFound,       \* element ids listed by the latest live response
    hasPlayerMeta,   \* snapshot.hasPlayerMeta of the latest successful poll
    picksResponse,   \* element ids of the picks array of the latest response
    http,            \* the JSON fetch in progress or last made
    sharedVersion,   \* sharedUiState.version
    uiRuntimeState,  \* static UiRuntimeState uiRuntimeState
    mutexOwner,      \* holder of sharedUiMutex, uiRuntimeMutex and demoMutex
    demoState,       \* static DemoState demoState
    fplCalls,        \* fplTask: the calls left in its current loop iteration
    polls,           \* fplTask: polls started
    demoModeAnnounced, \* fplTask's demoModeAnnounced
    loopCalls,       \* loop task: the calls left in the current command
    commands,        \* loop task: command lines handled
    serialLineBuffer, \* static char serialLineBuffer[]: the line handled last
    uiPc,            \* position of uiTask in its loop iteration
    localState,      \* uiTask's localState
    localRuntime,    \* uiTask's localRuntime
    currentMode,     \* static UiMode currentMode
    timeouts,        \* takes that have run into their timeout so far
    tickerEvent,     \* the event ui.liveTickerLabel shows (UiEventItem{}: "No events yet")
    popupEvent,      \* the event showPopupEvent last put on the popup screen
    millis,          \* millis(): the clock, an unsigned counter that wraps
    popupHideAtMs    \* static uint32_t popupHideAtMs (0: no popup timer)

vars == <<mode, lastPickStates, snapshotGw, picks, events, passLog,
          bonusPick, bonusResult, pc, gwPoints, sharedUiState, lastSuccessMs,
          liveFound, hasPlayerMeta, picksResponse, http, sharedVersion, uiRuntimeState, mutexOwner,
          demoState, fplCalls, polls, demoModeAnnounced, loopCalls, commands,
          serialLineBuffer, uiPc, localState, localRuntime, currentMode, timeouts,
          tickerEvent, popupEvent, millis, popupHideAtMs>>

engineVars == <<mode, lastPickStates, snapshotGw, picks, events, passLog>>
bonusVars == <<bonusPick, bonusResult>>
taskVars == <<pc, gwPoints, sharedUiState, lastSuccessMs>>
fetchVars == <<liveFound, hasPlayerMeta, picksResponse, http>>
\* What the specification of the tasks follows next to the above: the
\* version counters, the runtime event state, the mutexes and the positions
\* of the three tasks.
sinkVars == <<sharedVersion, uiRuntimeState>>
fplTaskVars == <<fplCalls, polls, demoModeAnnounced>>
loopTaskVars == <<loopCalls, commands, serialLineBuffer>>
uiTaskVars == <<uiPc, localState, localRuntime, currentMode, tickerEvent,
                popupEvent, millis, popupHideAtMs>>
tasksVars == <<sinkVars, mutexOwner, timeouts, demoState, fplTaskVars,
               loopTaskVars, uiTaskVars>>

(* ------------------------------------------------------------------ *)
(* Event emission                                                       *)
(* ------------------------------------------------------------------ *)
\* notifyEvent(pick, pts, what): the UiEventItem handed to pushUiEvent.
notifyEvent(pick, pts, what) ==
    [player |-> pick.elementId,
     label |-> what,
     delta |-> pts,
     totalAfter |-> pick.live.totalPoints,
     totalBefore |-> pick.live.totalPoints - pts,
     isGk |-> (pick.elementType = 1)]

\* Variant: only increases of a category are notified.
emitDiffIncreasesOnly(p, prevPts, currPts, label) ==
    IF currPts - prevPts > 0
    THEN <<notifyEvent(p, currPts - prevPts, label)>>
    ELSE <<>>

\* emitDiff lambda of detectAndNotifyPointChangesFromBreakdown.
emitDiff(p, prevPts, currPts, label) ==
    IF currPts - prevPts # 0
    THEN <<notifyEvent(p, currPts - prevPts, label)>>
    ELSE <<>>

\* Variant: the 60-minute point is notified even when the category delta
\* is already used up.
breakdownMinutesEventsUnguardedSixty(p, prev, curr) ==
    LET minutePtsDiff == curr.brMinutesPts - prev.brMinutesPts
        app == prev.minutes < 1 /\ curr.minutes >= 1 /\ minutePtsDiff > 0
        left1 == IF app THEN minutePtsDiff - 1 ELSE minutePtsDiff
        sixty == prev.minutes < 60 /\ curr.minutes >= 60
        left2 == IF sixty THEN left1 - 1 ELSE left1
    IN IF minutePtsDiff > 0
       THEN (IF app THEN <<notifyEvent(p, 1, "PLAYING!")>> ELSE <<>>)
            \o (IF sixty THEN <<notifyEvent(p, 1, "60+ mins!")>> ELSE <<>>)
            \o (IF left2 # 0 THEN <<notifyEvent(p, left2, "60+ mins!")>> ELSE <<>>)
       ELSE IF minutePtsDiff < 0
       THEN <<notifyEvent(p, minutePtsDiff, "60+ mins!")>>
       ELSE <<>>

\* The minutes block of detectAndNotifyPointChangesFromBreakdown.
breakdownMinutesEvents(p, prev, curr) ==
    LET minutePtsDiff == curr.brMinutesPts - prev.brMinutesPts
        app == prev.minutes < 1 /\ curr.minutes >= 1 /\ minutePtsDiff > 0
        left1 == IF app THEN minutePtsDiff - 1 ELSE minutePtsDiff
        sixty == prev.minutes < 60 /\ curr.minutes >= 60 /\ left1 > 0
        left2 == IF sixty THEN left1 - 1 ELSE left1
    IN IF minutePtsDiff > 0
       THEN (IF app THEN <<notifyEvent(p, 1, "PLAYING!")>> ELSE <<>>)
            \o (IF sixty THEN <<notifyEvent(p, 1, "60+ mins!")>> ELSE <<>>)
            \o (IF left2 # 0 THEN <<notifyEvent(p, left2, "60+ mins!")>> ELSE <<>>)
       ELSE IF minutePtsDiff < 0
       THEN <<notifyEvent(p, minutePtsDiff, "60+ mins!")>>
       ELSE <<>>

\* Variant: the minutes events are notified after the other categories.
breakdownEventsMinutesLast(p, prev, curr) ==
    emitDiff(p, prev.brGoalsPts, curr.brGoalsPts, "GOAL!")
    \o emitDiff(p, prev.brAssistsPts, curr.brAssistsPts, "ASSIST!")
    \o emitDiff(p, prev.brCleanSheetPts, curr.brCleanSheetPts, "CLEAN SHEET!")
    \o emitDiff(p, prev.brSavesPts, curr.brSavesPts, "SAVE BONUS!")
    \o emitDiff(p, prev.brPenSavedPts, curr.brPenSavedPts, "PEN SAVE!")
    \o emitDiff(p, prev.brDefContribPts, curr.brDefContribPts, "DEF CON!")
    \o emitDiff(p, prev.brBonusPts, curr.brBonusPts, "BONUS PTS!")
    \o emitDiff(p, prev.brGoalsConcededPts, curr.brGoalsConcededPts, "goals against")
    \o emitDiff(p, prev.brPenMissedPts, curr.brPenMissedPts, "PEN MISS!")
    \o emitDiff(p, prev.brYellowPts, curr.brYellowPts, "YELLOW!")
    \o emitDiff(p, prev.brRedPts, curr.brRedPts, "RED!")
    \o emitDiff(p, prev.brOwnGoalPts, curr.brOwnGoalPts, "OWN GOAL!")
    \o emitDiff(p, prev.brOtherPts, curr.brOtherPts, "other scoring rule")
    \o breakdownMinutesEvents(p, prev, curr)

\* Variant: the "other" category of the breakdown is not notified.
breakdownEventsWithoutOther(p, prev, curr) ==
    breakdownMinutesEvents(p, prev, curr)
    \o emitDiff(p, prev.brGoalsPts, curr.brGoalsPts, "GOAL!")
    \o emitDiff(p, prev.brAssistsPts, curr.brAssistsPts, "ASSIST!")
    \o emitDiff(p, prev.brCleanSheetPts, curr.brCleanSheetPts, "CLEAN SHEET!")
    \o emitDiff(p, prev.brSavesPts, curr.brSavesPts, "SAVE BONUS!")
    \o emitDiff(p, prev.brPenSavedPts, curr.brPenSavedPts, "PEN SAVE!")
    \o emitDiff(p, prev.brDefContribPts, curr.brDefContribPts, "DEF CON!")
    \o emitDiff(p, prev.brBonusPts, curr.brBonusPts, "BONUS PTS!")
    \o emitDiff(p, prev.brGoalsConcededPts, curr.brGoalsConcededPts, "goals against")
    \o emitDiff(p, prev.brPenMissedPts, curr.brPenMissedPts, "PEN MISS!")
    \o emitDiff(p, prev.brYellowPts, curr.brYellowPts, "YELLOW!")
    \o emitDiff(p, prev.brRedPts, curr.brRedPts, "RED!")
    \o emitDiff(p, prev.brOwnGoalPts, curr.brOwnGoalPts, "OWN GOAL!")

\* Body of detectAndNotifyPointChangesFromBreakdown for a tracked player
\* whose total changed: the notifyEvent calls, in order.
breakdownEvents(p, prev, curr) ==
    breakdownMinutesEvents(p, prev, curr)
    \o emitDiff(p, prev.brGoalsPts, curr.brGoalsPts, "GOAL!")
    \o emitDiff(p, prev.brAssistsPts, curr.brAssistsPts, "ASSIST!")
    \o emitDiff(p, prev.brCleanSheetPts, curr.brCleanSheetPts, "CLEAN SHEET!")
    \o emitDiff(p, prev.brSavesPts, curr.brSavesPts, "SAVE BONUS!")
    \o emitDiff(p, prev.brPenSavedPts, curr.brPenSavedPts, "PEN SAVE!")
    \o emitDiff(p, prev.brDefContribPts, curr.brDefContribPts, "DEF CON!")
    \o emitDiff(p, prev.brBonusPts, curr.brBonusPts, "BONUS PTS!")
    \o emitDiff(p, prev.brGoalsConcededPts, curr.brGoalsConcededPts, "goals against")
    \o emitDiff(p, prev.brPenMissedPts, curr.brPenMissedPts, "PEN MISS!")
    \o emitDiff(p, prev.brYellowPts, curr.brYellowPts, "YELLOW!")
    \o emitDiff(p, prev.brRedPts, curr.brRedPts, "RED!")
    \o emitDiff(p, prev.brOwnGoalPts, curr.brOwnGoalPts, "OWN GOAL!")
    \o emitDiff(p, prev.brOtherPts, curr.brOtherPts, "other scoring rule")

\* Variant: a decrease is notified as well.
emitIfChanged(p, diff, pts, label) ==
    IF diff # 0 THEN <<notifyEvent(p, pts, label)>> ELSE <<>>

\* One "if (diff > 0) notifyEvent(p, pts, label)" block of
\* detectAndNotifyPointChanges.
emitIfIncreased(p, diff, pts, label) ==
    IF diff > 0 THEN <<notifyEvent(p, pts, label)>> ELSE <<>>

\* Variant: the chunks of the difference instead of the difference of the
\* chunks.
chunkDiffOfDifference(prevCount, currCount, threshold) ==
    CDiv(currCount - prevCount, threshold)

\* The chunk difference of detectAndNotifyPointChanges (saves, defensive
\* contributions, goals conceded): chunksCurr - chunksPrev.
chunkDiff(prevCount, currCount, threshold) ==
    CDiv(currCount, threshold) - CDiv(prevCount, threshold)

\* Variant: the 60-minute block does not look at the previous minutes.
inferredMinutesEventsNoPrevCheck(p, prev, curr) ==
    (IF prev.minutes < 1 /\ curr.minutes >= 1
     THEN <<notifyEvent(p, 1, "PLAYING!")>> ELSE <<>>)
    \o (IF curr.minutes >= 60
        THEN <<notifyEvent(p, 1, "60+ mins!")>> ELSE <<>>)

\* The two minutes blocks of detectAndNotifyPointChanges.
inferredMinutesEvents(p, prev, curr) ==
    (IF prev.minutes < 1 /\ curr.minutes >= 1
     THEN <<notifyEvent(p, 1, "PLAYING!")>> ELSE <<>>)
    \o (IF prev.minutes < 60 /\ curr.minutes >= 60
        THEN <<notifyEvent(p, 1, "60+ mins!")>> ELSE <<>>)

\* Body of detectAndNotifyPointChanges for a tracked player whose total
\* changed: the notifyEvent calls, in order.
inferredEvents(p, prev, curr) ==
    LET t == p.elementType
        goalDiff == curr.goalsScored - prev.goalsScored
        assistDiff == curr.assists - prev.assists
        csDiff == curr.cleanSheets - prev.cleanSheets
        csPts == cleanSheetPointsForElementType(t) * csDiff
        savesThreshold == savesThresholdForElementType(t)
        saveChunkDiff == IF savesThreshold > 0
                         THEN chunkDiff(prev.saves, curr.saves, savesThreshold)
                         ELSE 0
        psDiff == curr.penaltiesSaved - prev.penaltiesSaved
        dcThreshold == defensiveContributionThresholdForElementType(t)
        dcChunkDiff == IF dcThreshold > 0
                       THEN chunkDiff(prev.defensiveContributions,
                                      curr.defensiveContributions, dcThreshold)
                       ELSE 0
        bonusDiff == curr.bonus - prev.bonus
        gcChunkDiff == IF t = 1 \/ t = 2
                       THEN chunkDiff(prev.goalsConceded, curr.goalsConceded, 2)
                       ELSE 0
        pmDiff == curr.penaltiesMissed - prev.penaltiesMissed
        ycDiff == curr.yellowCards - prev.yellowCards
        rcDiff == curr.redCards - prev.redCards
        ogDiff == curr.ownGoals - prev.ownGoals
    IN inferredMinutesEvents(p, prev, curr)
       \o emitIfIncreased(p, goalDiff, goalPointsForElementType(t) * goalDiff, "GOAL!")
       \o emitIfIncreased(p, assistDiff, 3 * assistDiff, "ASSIST!")
       \o (IF csDiff > 0 /\ csPts # 0
           THEN <<notifyEvent(p, csPts, "CLEAN SHEET!")>> ELSE <<>>)
       \o emitIfIncreased(p, saveChunkDiff, saveChunkDiff, "SAVE BONUS!")
       \o emitIfIncreased(p, psDiff, 5 * psDiff, "PEN SAVE!")
       \o emitIfIncreased(p, dcChunkDiff, 2 * dcChunkDiff, "DEF CON!")
       \o emitIfIncreased(p, bonusDiff, bonusDiff, "BONUS PTS!")
       \o emitIfIncreased(p, gcChunkDiff, -gcChunkDiff, "goals against")
       \o emitIfIncreased(p, pmDiff, -2 * pmDiff, "PEN MISS!")
       \o emitIfIncreased(p, ycDiff, -ycDiff, "YELLOW!")
       \o emitIfIncreased(p, rcDiff, -3 * rcDiff, "RED!")
       \o emitIfIncreased(p, ogDiff, -2 * ogDiff, "OWN GOAL!")

(* ------------------------------------------------------------------ *)
(* The reconciliation pass                                              *)
(* ------------------------------------------------------------------ *)
\* Variant: the search for the player's state starts at the second slot.
findStateFromSecondSlot(table, gw, elementId) ==
    LET hits == {s \in Slots \ {1} : table[s].valid /\ table[s].gw = gw
                                     /\ table[s].elementId = elementId}
    IN IF hits = {} THEN 0 ELSE CHOOSE s \in hits : \A r \in hits : s <= r

\* First loop of the pass body: the first slot that is valid and keyed
\* (gw, elementId); 0 for "state == nullptr".
findState(table, gw, elementId) ==
    LET hits == {s \in Slots : table[s].valid /\ table[s].gw = gw
                               /\ table[s].elementId = elementId}
    IN IF hits = {} THEN 0 ELSE CHOOSE s \in hits : \A r \in hits : s <= r

\* Variant: only a slot that was never used counts as free.
findFreeSlotNeverUsed(table, gw) ==
    LET free == {s \in Slots : ~table[s].valid}
    IN IF free = {} THEN 0 ELSE CHOOSE s \in free : \A r \in free : s <= r

\* Second loop of the pass body: the first slot that is not valid or holds
\* another gameweek; 0 when the loop ends without a break.
findFreeSlot(table, gw) ==
    LET free == {s \in Slots : ~table[s].valid \/ table[s].gw # gw}
    IN IF free = {} THEN 0 ELSE CHOOSE s \in free : \A r \in free : s <= r

\* "explained": the sum of the deltas of the notifyEvent calls of one pick.
RECURSIVE explained(_)
explained(evs) ==
    IF evs = <<>> THEN 0 ELSE Head(evs).delta + explained(Tail(evs))

\* Variant: the events are emitted only when they explain the whole
\* change of the total.
trackedEventsOnlyWhenExplained(m, p, prev, curr) ==
    LET evs == IF m = "A" THEN breakdownEvents(p, prev, curr)
               ELSE inferredEvents(p, prev, curr)
    IN IF curr.totalPoints - prev.totalPoints = 0 THEN <<>>
       ELSE IF explained(evs) = curr.totalPoints - prev.totalPoints THEN evs
       ELSE <<>>

\* Variant: the pass does not look at the change of the total.
trackedEventsWithoutShortCircuit(m, p, prev, curr) ==
    IF m = "A" THEN breakdownEvents(p, prev, curr)
    ELSE inferredEvents(p, prev, curr)

\* The events of one tracked pick: nothing when the total did not change,
\* else the calls of the build's detection function.
trackedEvents(m, p, prev, curr) ==
    IF curr.totalPoints - prev.totalPoints = 0 THEN <<>>
    ELSE IF m = "A" THEN breakdownEvents(p, prev, curr)
    ELSE inferredEvents(p, prev, curr)

\* Variant: the retained snapshot advances only when the events explain
\* the whole change of the total.
advanceStateWhenExplained(table, state, p, evs) ==
    IF explained(evs) = p.live.totalPoints - table[state].live.totalPoints
    THEN [table EXCEPT ![state].live = p.live]
    ELSE table

\* Variant: the retained snapshot is never replaced.
advanceStateNever(table, state, p, evs) == table

\* "state->live = curr" of a tracked pick, on both paths (total unchanged,
\* and after the events); evs are the events the iteration emitted.
advanceState(table, state, p, evs) == [table EXCEPT ![state].live = p.live]

\* One iteration of the for loop over picks, on the table as the earlier
\* iterations left it: the new table and a record of the branch taken
\* (first observation or tracked, the slot used, the baseline read and the
\* notifyEvent calls made).
pickStep(m, table, gw, p) ==
    LET state == findState(table, gw, p.elementId)
        free == findFreeSlot(table, gw)
    IN IF state = 0
       THEN [table |-> IF free = 0 THEN table
                       ELSE [table EXCEPT ![free] =
                                [valid |-> TRUE, gw |-> gw,
                                 elementId |-> p.elementId, live |-> p.live]],
             log |-> [first |-> TRUE, slot |-> free, prev |-> LiveStats,
                      events |-> <<>>]]
       ELSE LET evs == trackedEvents(m, p, table[state].live, p.live)
            IN [table |-> advanceState(table, state, p, evs),
                log |-> [first |-> FALSE, slot |-> state,
                         prev |-> table[state].live, events |-> evs]]

RECURSIVE passLoop(_, _, _, _, _, _, _)
passLoop(m, gw, ps, i, table, evs, log) ==
    IF i > Len(ps) THEN [table |-> table, events |-> evs, log |-> log]
    ELSE LET r == pickStep(m, table, gw, ps[i])
         IN passLoop(m, gw, ps, i + 1, r.table, evs \o r.log.events,
                     Append(log, r.log))

\* detectAndNotifyPointChangesFromBreakdown(gw, picks, pickCount)
detectAndNotifyPointChangesFromBreakdown(table, gw, ps) ==
    passLoop("A", gw, ps, 1, table, <<>>, <<>>)

\* detectAndNotifyPointChanges(gw, picks, pickCount)
detectAndNotifyPointChanges(table, gw, ps) ==
    passLoop("B", gw, ps, 1, table, <<>>, <<>>)

(* ------------------------------------------------------------------ *)
(* Building the snapshot of one poll                                    *)
(* ------------------------------------------------------------------ *)
\* TRUE iff position i is the first pick of ids with its element id: the
\* loops of fetchLivePointsForPicks and fetchPlayerMetaForPicks leave at
\* the first pick whose elementId matches.
firstMatch(ids, i) == \A j \in 1..(i - 1) : ids[j] # ids[i]

\* Variant: the loop over the picks array does not stop at the capacity.
fetchPicksForGwPastCapacity(ids) == ids

\* fetchPicksForGw, the loop over the picks array of the response: it
\* leaves at pickCountOut >= picksCapacity.
fetchPicksForGw(ids) ==
    SubSeq(ids, 1, IF Len(ids) < PicksCapacity THEN Len(ids) ELSE PicksCapacity)

\* fetchPicksForGw, fetchLivePointsForPicks and fetchPlayerMetaForPicks on
\* a picks response listing ids with multipliers multiplierOf[e], a live
\* response listing the elements found with stats liveOf[e], and
\* element_type typeOf[e]: a pick the live response does not list keeps
\* LiveStats{}, and so does a later pick with a repeated id, whose
\* elementType stays 0.
fetchTeamSnapshot(ids, found, liveOf, typeOf, multiplierOf) ==
    LET kept == fetchPicksForGw(ids)
    IN [i \in 1..Len(kept) |->
           TeamPick(kept[i],
                    IF firstMatch(kept, i) THEN typeOf[kept[i]] ELSE 0,
                    IF firstMatch(kept, i) /\ kept[i] \in found
                    THEN liveOf[kept[i]] ELSE LiveStats,
                    multiplierOf[kept[i]])]

\* Variant: the multiplier is left out of the sum.
RECURSIVE computeGwPointsIgnoringMultiplier(_)
computeGwPointsIgnoringMultiplier(ps) ==
    IF ps = <<>> THEN 0
    ELSE adjustedLivePointsWithProjectedBonus(ps[1]).points
         + computeGwPointsIgnoringMultiplier(Tail(ps))

\* computeGwPointsFromPicks: the sum of adjusted points x multiplier.
RECURSIVE computeGwPointsFromPicks(_)
computeGwPointsFromPicks(ps) ==
    IF ps = <<>> THEN 0
    ELSE adjustedLivePointsWithProjectedBonus(ps[1]).points * ps[1].multiplier
         + computeGwPointsFromPicks(Tail(ps))

\* fetchAndPrintTeamSnapshot, successful fetch: the pass of the build's
\* mode over the fetched snapshot; gwPointsOut is snapshot.gwPoints.
fetchAndPrintTeamSnapshot(gw, ps) ==
    LET r == IF mode = "A"
             THEN detectAndNotifyPointChangesFromBreakdown(lastPickStates, gw, ps)
             ELSE detectAndNotifyPointChanges(lastPickStates, gw, ps)
    IN /\ lastPickStates' = r.table
       /\ events' = r.events
       /\ passLog' = r.log
       /\ snapshotGw' = gw
       /\ picks' = ps
       /\ gwPoints' = computeGwPointsFromPicks(ps)
       /\ UNCHANGED <<mode, bonusVars>>

\* The setters of the shared UI state: the write happens when the mutex is
\* taken within the timeout, and is dropped otherwise.
setSharedStatus(shared, text, taken) ==
    IF taken THEN [shared EXCEPT !.statusText = text] ELSE shared

setSharedGwPoints(shared, points, taken) ==
    IF taken THEN [shared EXCEPT !.gwPoints = points] ELSE shared

setSharedGwStateText(shared, text, taken) ==
    IF taken THEN [shared EXCEPT !.gwStateText = text] ELSE shared

\* Variant: the freshness write also resets the published points.
setSharedFreshnessResetsPoints(shared, isStale, taken) ==
    IF taken THEN [shared EXCEPT !.isStale = isStale, !.gwPoints = 0] ELSE shared

setSharedFreshness(shared, isStale, taken) ==
    IF taken THEN [shared EXCEPT !.isStale = isStale] ELSE shared

\* One whole poll cycle of fplTask with a successful fetch of gameweek gw
\* and picks ps, the gameweek-state text gwStateText and every write of the
\* shared UI state taking its mutex.
pollSucceeds(gw, ps, found, meta, gwStateText) ==
    /\ pc = "idle"
    /\ fetchAndPrintTeamSnapshot(gw, ps)
    /\ sharedUiState' =
          setSharedStatus(
            setSharedFreshness(
              setSharedGwPoints(
                setSharedGwStateText(
                  setSharedStatus(sharedUiState, "Fetching FPL points...", TRUE),
                  gwStateText, TRUE),
                computeGwPointsFromPicks(ps), TRUE),
              FALSE, TRUE),
            "FPL updated", TRUE)
    /\ lastSuccessMs' = 1
    /\ liveFound' = found
    /\ hasPlayerMeta' = meta
    /\ UNCHANGED <<pc, http, tasksVars>>

(* ------------------------------------------------------------------ *)
(* Inputs of the polls                                                  *)
(* ------------------------------------------------------------------ *)
\* LiveStats{} with member f set to v.
With(l, f, v) == [l EXCEPT ![f] = v]

\* 75 minutes played for 2 points.  Forward from LiveStats{}, the change is
\* explained in both modes; backward (a correction), Mode B explains
\* nothing of it.
Played75 ==
    With(With(With(LiveStats, "minutes", 75), "brMinutesPts", 2), "totalPoints", 2)

\* A snapshot in which every counter and every breakdown category is set:
\* a pair with LiveStats{} makes every category of either mode emit.  Its
\* total of 16 is explained by the events of neither mode (the breakdown
\* adds up to 17), and is a goalkeeper's expected total without the bonus.
Haul ==
    [totalPoints |-> 16, minutes |-> 90, goalsScored |-> 1, assists |-> 1,
     cleanSheets |-> 1, goalsConceded |-> 2, ownGoals |-> 1,
     penaltiesSaved |-> 1, penaltiesMissed |-> 1, yellowCards |-> 1,
     redCards |-> 1, saves |-> 3, bonus |-> 2, defensiveContributions |-> 12,
     brMinutesPts |-> 2, brGoalsPts |-> 6, brAssistsPts |-> 3,
     brCleanSheetPts |-> 4, brGoalsConcededPts |-> -1, brOwnGoalPts |-> -2,
     brPenSavedPts |-> 5, brPenMissedPts |-> -2, brYellowPts |-> -1,
     brRedPts |-> -3, brSavesPts |-> 1, brBonusPts |-> 2,
     brDefContribPts |-> 2, brOtherPts |-> 1]

\* Snapshots of the table specification: nothing yet, and Haul.
TableLives == {LiveStats, Haul}

\* Picks arrays of the table specification: 1..PicksCapacity + 1 picks
\* (fetchPicksForGw fails on an empty list) of distinct players, one order
\* per set of players.
Rosters ==
    {ids \in UNION {[1..n -> Elements] : n \in 1..(PicksCapacity + 1)} :
        \A i, j \in DOMAIN ids : i < j => ids[i] < ids[j]}

\* element_type of the bootstrap data; 0 for every pick when the metadata
\* fetch failed (hasPlayerMeta false).
elementTypeOf(metaFetched) ==
    [e \in Elements |-> IF metaFetched THEN ((e - 1) % 4) + 1 ELSE 0]

\* multiplier of the picks response: captain (2), starter (1), bench (0),
\* triple captain (3), by element.
multiplierOf == [e \in Elements |-> (7 - e) % 4]

\* The gameweek-state texts: fetchGameweekState failed, or one state.
GwStateTexts == {"GW live: ? | next: --", "GW live: yes | next: 2"}

Range(seq) == {seq[i] : i \in DOMAIN seq}

(* ------------------------------------------------------------------ *)
(* Specification of the table: polls over whole rosters                 *)
(* ------------------------------------------------------------------ *)
InitEngine ==
    /\ mode \in {"A", "B"}
    /\ lastPickStates = [s \in Slots |-> LastPickState]
    /\ snapshotGw = 0
    /\ picks = <<>>
    /\ events = <<>>
    /\ passLog = <<>>
    /\ pc = "idle"
    /\ gwPoints = 0
    /\ sharedUiState = SharedUiState
    /\ lastSuccessMs = 0
    /\ liveFound = {}
    /\ hasPlayerMeta = FALSE
    /\ picksResponse = <<>>
    /\ http = HttpFetch
    /\ sharedVersion = 0
    /\ uiRuntimeState = UiRuntimeState
    /\ mutexOwner = [m \in Mutexes |-> "none"]
    /\ timeouts = 0
    /\ demoState = DemoState
    /\ fplCalls = <<>>
    /\ polls = 0
    /\ demoModeAnnounced = FALSE
    /\ loopCalls = <<>>
    /\ commands = 0
    /\ serialLineBuffer = ""
    /\ uiPc = "readSharedUiState"
    /\ localState = SharedUiState
    /\ localRuntime = UiRuntimeState
    /\ currentMode = "Idle"
    /\ tickerEvent = UiEventItem
    /\ popupEvent = UiEventItem
    /\ millis = 0
    /\ popupHideAtMs = 0

Init ==
    /\ InitEngine
    /\ bonusPick = TeamPick(0, 0, LiveStats, 0)
    /\ bonusResult = NoBonusResult

\* One successful poll of fplTask.
Poll ==
    \E gw \in Gws, ids \in Rosters :
      \E liveOf \in [Range(ids) -> TableLives] :
        /\ pollSucceeds(
            gw,
            fetchTeamSnapshot(ids, Range(ids), liveOf, elementTypeOf(TRUE),
                              multiplierOf),
            Range(ids), TRUE, "GW live: yes | next: 2")
        /\ picksResponse' = ids

Next == Poll

Spec == Init /\ [][Next]_vars

(* ------------------------------------------------------------------ *)
(* Specification of one player's snapshot pairs                         *)
(* ------------------------------------------------------------------ *)
\* Counter values of the inferred mode: below, at and above the chunk
\* thresholds 3 (saves), 2 (goals conceded), 10 and 12 (defensive
\* contributions).
CounterCases ==
    {<<"goalsScored", 1>>, <<"goalsScored", 2>>, <<"assists", 1>>,
     <<"cleanSheets", 1>>, <<"goalsConceded", 1>>, <<"goalsConceded", 2>>,
     <<"goalsConceded", 4>>, <<"ownGoals", 1>>, <<"penaltiesSaved", 1>>,
     <<"penaltiesMissed", 1>>, <<"yellowCards", 1>>, <<"redCards", 1>>,
     <<"saves", 2>>, <<"saves", 4>>, <<"saves", 5>>, <<"saves", 8>>,
     <<"bonus", 1>>,
     <<"bonus", 3>>, <<"defensiveContributions", 9>>,
     <<"defensiveContributions", 10>>, <<"defensiveContributions", 12>>,
     <<"defensiveContributions", 24>>}

\* Per-category points of the server breakdown.
BreakdownCases ==
    {<<"brMinutesPts", 1>>, <<"brMinutesPts", 2>>, <<"brMinutesPts", 3>>,
     <<"brGoalsPts", 4>>, <<"brAssistsPts", 3>>, <<"brCleanSheetPts", 4>>,
     <<"brGoalsConcededPts", -1>>, <<"brOwnGoalPts", -2>>,
     <<"brPenSavedPts", 5>>, <<"brPenMissedPts", -2>>, <<"brYellowPts", -1>>,
     <<"brRedPts", -3>>, <<"brSavesPts", 1>>, <<"brBonusPts", 2>>,
     <<"brDefContribPts", 2>>, <<"brOtherPts", 1>>}

MinutesCases == {0, 45, 75}
TotalCases == {0, 2, 5}

\* Snapshots of the pair specification: a total, the minutes played and at
\* most one other member set; a pair of them changes up to two categories
\* next to the minutes.
PairLives(cases) ==
    {With(With(l, "minutes", mi), "totalPoints", tp) :
        l \in {LiveStats} \cup {With(LiveStats, c[1], c[2]) : c \in cases},
        mi \in MinutesCases, tp \in TotalCases}

\* The pairs of a build: the breakdown build reads the breakdown members
\* and the minutes, the inferred build the counters.
PairLivesOf(m) == IF m = "A" THEN PairLives(BreakdownCases) ELSE PairLives(CounterCases)

\* First successful poll of the session: roster of one player, element 1 in
\* gameweek 1, with any role and any snapshot.
Observe ==
    /\ picks = <<>>
    /\ \E elementType \in ElementTypes, live \in PairLivesOf(mode) :
          pollSucceeds(1, <<TeamPick(1, elementType, live, 1)>>, {1},
                       elementType # 0, "GW live: yes | next: 2")
    /\ picksResponse' = <<1>>

\* The poll after it: the same player with any snapshot.  A behaviour of
\* this specification is one previous/current pair; the table it ends
\* with is the start of another behaviour's pair.
Reconcile ==
    /\ Len(passLog) = 1 /\ passLog[1].first
    /\ \E live \in PairLivesOf(mode) :
          pollSucceeds(1, <<TeamPick(1, picks[1].elementType, live, 1)>>, {1},
                       hasPlayerMeta, "GW live: yes | next: 2")
    /\ picksResponse' = <<1>>

NextPair == Observe \/ Reconcile

SpecPair == Init /\ [][NextPair]_vars

(* ------------------------------------------------------------------ *)
(* Specification of the bonus resolution                                *)
(* ------------------------------------------------------------------ *)
\* Largest total_points and bonus of the resolved snapshots.
MaxTotalPoints == 14
MaxBonus == 3

\* Snapshots of the bonus specification: expected points from the minutes,
\* a goal, a yellow card and a saved penalty, against every total and bonus.
BonusLives ==
    {[LiveStats EXCEPT !.minutes = mi, !.goalsScored = g, !.yellowCards = y,
                       !.penaltiesSaved = ps,
                       !.bonus = b, !.totalPoints = tp] :
        mi \in {0, 45, 90}, g \in {0, 1}, y \in {0, 1}, ps \in {0, 1},
        b \in -1..MaxBonus, tp \in -1..MaxTotalPoints}

InitBonus ==
    /\ InitEngine
    /\ bonusPick \in {TeamPick(1, t, l, 1) : t \in ElementTypes, l \in BonusLives}
    /\ bonusResult = NoBonusResult

\* One call of adjustedLivePointsWithProjectedBonus on the drawn pick.
ResolveBonus ==
    /\ ~bonusResult.called
    /\ bonusResult' = adjustedLivePointsWithProjectedBonus(bonusPick)
    /\ UNCHANGED <<engineVars, bonusPick, taskVars, fetchVars, tasksVars>>

NextBonus == ResolveBonus

SpecBonus == InitBonus /\ [][NextBonus]_vars

(* ------------------------------------------------------------------ *)
(* Specification of the poll cycle: fetch outcomes and mutex timeouts   *)
(* ------------------------------------------------------------------ *)
\* The picks response of the cycles: element 1 (captain) and element 2.
CycleIds == <<1, 2>>

\* The live responses of the cycles, by element.
CycleLives ==
    {[e \in Elements |-> IF e = 1 THEN l ELSE Played75] : l \in {Played75, Haul}}

\* fplTask, a due poll up to the call of fetchAndPrintTeamSnapshot: the
\* status, the gameweek-state text (fetchGameweekState succeeding or not)
\* and the local gwPoints.
BeginPoll ==
    /\ pc = "idle"
    /\ \E text \in GwStateTexts, takenStatus, takenText \in BOOLEAN :
          sharedUiState' =
              setSharedGwStateText(
                  setSharedStatus(sharedUiState, "Fetching FPL points...",
                                  takenStatus),
                  text, takenText)
    /\ gwPoints' = 0
    /\ pc' = "fetch"
    /\ UNCHANGED <<mode, lastPickStates, snapshotGw, picks, events, passLog,
                   bonusVars, lastSuccessMs, fetchVars, tasksVars>>

\* fetchAndPrintTeamSnapshot returning true: the entry summary, the picks
\* and the live response were fetched and parsed.  The live response lists
\* the elements found; the metadata fetch succeeded or not.
FetchSucceeds ==
    /\ pc = "fetch"
    /\ \E liveOf \in CycleLives, found \in SUBSET Range(CycleIds),
          meta \in BOOLEAN :
          /\ fetchAndPrintTeamSnapshot(
                 1, fetchTeamSnapshot(CycleIds, found, liveOf,
                                      elementTypeOf(meta), multiplierOf))
          /\ liveFound' = found
          /\ hasPlayerMeta' = meta
          /\ picksResponse' = CycleIds
    /\ pc' = "publish"
    /\ UNCHANGED <<sharedUiState, lastSuccessMs, http, tasksVars>>

\* fetchAndPrintTeamSnapshot returning false: fetchEntrySummary,
\* fetchPicksForGw or fetchLivePointsForPicks failed.
FetchFails ==
    /\ pc = "fetch"
    /\ pc' = "failed"
    /\ UNCHANGED <<engineVars, bonusVars, gwPoints, sharedUiState,
                   lastSuccessMs, fetchVars, tasksVars>>

\* fplTask, the branch of a successful fetch.
PublishSuccess ==
    /\ pc = "publish"
    /\ \E takenPoints, takenFreshness, takenStatus \in BOOLEAN :
          sharedUiState' =
              setSharedStatus(
                  setSharedFreshness(
                      setSharedGwPoints(sharedUiState, gwPoints, takenPoints),
                      FALSE, takenFreshness),
                  "FPL updated", takenStatus)
    /\ lastSuccessMs' = 1
    /\ pc' = "idle"
    /\ UNCHANGED <<engineVars, bonusVars, gwPoints, fetchVars, tasksVars>>

\* fplTask, the branch of a failed fetch: stale when no poll succeeded yet
\* or the last success is more than 300000 ms old.
PublishFailure ==
    /\ pc = "failed"
    /\ \E elapsed, takenFreshness, takenStatus \in BOOLEAN :
          LET stale == (lastSuccessMs = 0) \/ elapsed
          IN sharedUiState' =
                 setSharedStatus(
                     setSharedFreshness(sharedUiState, stale, takenFreshness),
                     "FPL fetch failed", takenStatus)
    /\ pc' = "idle"
    /\ UNCHANGED <<engineVars, bonusVars, gwPoints, lastSuccessMs,
                   fetchVars, tasksVars>>

NextCycle ==
    \/ BeginPoll
    \/ FetchSucceeds
    \/ FetchFails
    \/ PublishSuccess
    \/ PublishFailure

SpecCycle == Init /\ [][NextCycle]_vars

(* ------------------------------------------------------------------ *)
(* Specification of the JSON fetches                                    *)
(* ------------------------------------------------------------------ *)
\* What one http.GET() and the reading and parsing of its payload lead to:
\* http.begin failing, a status other than 200, heap_caps_malloc failing,
\* an empty payload, the DeserializationError of the parse, or a parsed
\* document.
GetOutcomes ==
    {"begin failed", "HTTP 500", "alloc failed", "empty payload",
     "IncompleteInput", "EmptyInput", "InvalidInput", "Ok"}

\* The short reads the code retries after.
ShortReads == {"empty payload", "IncompleteInput", "EmptyInput"}

\* One iteration of the loop of getJsonDocument (JsonReadMode::StringBody,
\* the mode of every caller) whose GET ends in outcome.
getJsonDocument(fetch, outcome) ==
    LET got == [fetch EXCEPT !.gets = Append(fetch.gets, outcome)]
    IN IF outcome = "Ok" THEN [got EXCEPT !.returned = "true"]
       ELSE IF outcome \in ShortReads /\ fetch.attempt = 1
       THEN [got EXCEPT !.attempt = 2]
       ELSE [got EXCEPT !.returned = "false"]

\* One iteration of the loop of fetchUrlToPsramBuffer whose GET ends in
\* outcome, and when it returns a payload the rest of the iteration of
\* getJsonDocumentFromPsramUrl that called it.
getJsonDocumentFromPsramUrl(fetch, outcome) ==
    LET got == [fetch EXCEPT !.gets = Append(fetch.gets, outcome)]
    IN IF outcome \in {"begin failed", "HTTP 500", "alloc failed"}
       THEN [got EXCEPT !.returned = "false"]
       ELSE IF outcome = "empty payload"
       THEN IF fetch.bufferAttempt = 1
            THEN [got EXCEPT !.bufferAttempt = 2]
            ELSE [got EXCEPT !.returned = "false"]
       ELSE IF outcome = "Ok" THEN [got EXCEPT !.returned = "true"]
       ELSE IF outcome \in ShortReads /\ fetch.attempt = 1
       THEN [got EXCEPT !.attempt = 2, !.bufferAttempt = 1]
       ELSE [got EXCEPT !.returned = "false"]

\* A fetch begins: getJsonDocument returns false at once when WiFi is not
\* connected.
BeginFetch ==
    /\ (http.returned # "" \/ http.fn = "")
    /\ \E fn \in {"getJsonDocument", "getJsonDocumentFromPsramUrl"},
          connected \in BOOLEAN :
          http' = [fn |-> fn, attempt |-> 1, bufferAttempt |-> 1,
                   gets |-> <<>>,
                   returned |-> IF fn = "getJsonDocument" /\ ~connected
                                THEN "false" ELSE ""]
    /\ UNCHANGED <<engineVars, bonusVars, taskVars, liveFound, hasPlayerMeta,
                   picksResponse, tasksVars>>

\* One GET of the fetch in progress.
FetchAttempt ==
    /\ http.fn # ""
    /\ http.returned = ""
    /\ \E outcome \in GetOutcomes :
          http' = IF http.fn = "getJsonDocument"
                  THEN getJsonDocument(http, outcome)
                  ELSE getJsonDocumentFromPsramUrl(http, outcome)
    /\ UNCHANGED <<engineVars, bonusVars, taskVars, liveFound, hasPlayerMeta,
                   picksResponse, tasksVars>>

NextFetch == BeginFetch \/ FetchAttempt

SpecFetch == Init /\ [][NextFetch]_vars

(* ------------------------------------------------------------------ *)
(* The runtime event state and the bodies of its critical sections      *)
(* ------------------------------------------------------------------ *)
\* Variant: a write advances the version by two.
incrementVersionTwice(version) == version + 2

\* sharedUiState.version++, uiRuntimeState.eventVersion++ and
\* uiRuntimeState.squadVersion++.
incrementVersion(version) == version + 1

\* Variant: a full recent-events list takes the new event in its last
\* entry without shifting.
pushUiEventWithoutShift(runtime, event) ==
    [runtime EXCEPT
        !.recentEvents =
            IF Len(runtime.recentEvents) < kMaxUiEvents
            THEN Append(runtime.recentEvents, event)
            ELSE [runtime.recentEvents EXCEPT ![kMaxUiEvents] = event],
        !.popupQueue =
            IF runtime.popupCount < kMaxPopupEvents
            THEN [runtime.popupQueue EXCEPT ![runtime.popupTail] = event]
            ELSE runtime.popupQueue,
        !.popupTail =
            IF runtime.popupCount < kMaxPopupEvents
            THEN (runtime.popupTail + 1) % kMaxPopupEvents
            ELSE runtime.popupTail,
        !.popupCount =
            IF runtime.popupCount < kMaxPopupEvents
            THEN runtime.popupCount + 1
            ELSE runtime.popupCount,
        !.eventVersion = incrementVersion(runtime.eventVersion)]

\* Variant: a push into a full popup ring overwrites the oldest pending
\* popup.
pushUiEventOverwritingOldest(runtime, event) ==
    [runtime EXCEPT
        !.recentEvents =
            IF Len(runtime.recentEvents) < kMaxUiEvents
            THEN Append(runtime.recentEvents, event)
            ELSE Append(Tail(runtime.recentEvents), event),
        !.popupQueue = [runtime.popupQueue EXCEPT ![runtime.popupTail] = event],
        !.popupHead =
            IF runtime.popupCount < kMaxPopupEvents
            THEN runtime.popupHead
            ELSE (runtime.popupHead + 1) % kMaxPopupEvents,
        !.popupTail = (runtime.popupTail + 1) % kMaxPopupEvents,
        !.popupCount =
            IF runtime.popupCount < kMaxPopupEvents
            THEN runtime.popupCount + 1
            ELSE runtime.popupCount,
        !.eventVersion = incrementVersion(runtime.eventVersion)]

\* pushUiEvent, mutex taken: the event is appended to the recent events
\* (the oldest entry leaving a full array), queued as a popup unless the
\* ring is full, and eventVersion is incremented.
pushUiEvent(runtime, event) ==
    [runtime EXCEPT
        !.recentEvents =
            IF Len(runtime.recentEvents) < kMaxUiEvents
            THEN Append(runtime.recentEvents, event)
            ELSE Append(Tail(runtime.recentEvents), event),
        !.popupQueue =
            IF runtime.popupCount < kMaxPopupEvents
            THEN [runtime.popupQueue EXCEPT ![runtime.popupTail] = event]
            ELSE runtime.popupQueue,
        !.popupTail =
            IF runtime.popupCount < kMaxPopupEvents
            THEN (runtime.popupTail + 1) % kMaxPopupEvents
            ELSE runtime.popupTail,
        !.popupCount =
            IF runtime.popupCount < kMaxPopupEvents
            THEN runtime.popupCount + 1
            ELSE runtime.popupCount,
        !.eventVersion = incrementVersion(runtime.eventVersion)]

\* popUiPopup, mutex taken and popupCount > 0: the head of the ring leaves.
popUiPopup(runtime) ==
    [runtime EXCEPT
        !.popupHead = (runtime.popupHead + 1) % kMaxPopupEvents,
        !.popupCount = runtime.popupCount - 1]

\* "popupHideAtMs = millis() + 4000U" of showPopupEvent, in unsigned
\* arithmetic.
popupDeadline(now) == (now + PopupMs) % MillisModulus

\* clearUiEvents, mutex taken.
clearUiEvents(runtime) ==
    [runtime EXCEPT
        !.recentEvents = <<>>,
        !.popupHead = 0, !.popupTail = 0, !.popupCount = 0,
        !.eventVersion = incrementVersion(runtime.eventVersion)]

\* updateSharedSquadFromPicks, mutex taken: one row per pick up to
\* kMaxSquadRows, holding total_points x multiplier.
updateSharedSquadFromPicks(runtime, ps) ==
    [runtime EXCEPT
        !.squadRows =
            [i \in 1..(IF Len(ps) < kMaxSquadRows THEN Len(ps) ELSE kMaxSquadRows)
                |-> ps[i].live.totalPoints * ps[i].multiplier],
        !.squadVersion = incrementVersion(runtime.squadVersion)]

\* publishDemoStateToUi(state): its calls, in order.
publishDemoStateToUi(state) ==
    <<Call("setSharedGwPoints", "", state.gwPoints),
      Call("setSharedRankData", "", 0),
      Call("setSharedTotalPoints", "", 0),
      Call("setSharedGameweekContext", "", 0),
      Call("setSharedGwStateText", "GW live: yes | next: 2", 0),
      Call("setSharedFreshness", "", 0),
      Call("updateSharedSquadFromPicks", "", 0)>>

\* The serial command lines followed: the demo commands, a gameweek command
\* and the event commands: a goal for the first slot, a slot the squad does
\* not have, an event type applyDemoEventToPick does not know and a count
\* of zero.
EventLines ==
    {"event 1 goal", "event 99 goal", "event 1 xyz", "event 1 goal 0"}
SerialLines ==
    {"demo seed", "demo on", "demo off", "demo reset", "gw deadline clear"}
    \cup EventLines

\* tokens[1], tokens[2] and the count of an event line: parseIntToken of
\* tokens[3], or 1 without a fourth token.
eventTokens(line) ==
    IF line = "event 1 goal" THEN [slot |-> 1, type |-> "goal", count |-> 1]
    ELSE IF line = "event 99 goal"
    THEN [slot |-> 99, type |-> "goal", count |-> 1]
    ELSE IF line = "event 1 xyz" THEN [slot |-> 1, type |-> "xyz", count |-> 1]
    ELSE [slot |-> 1, type |-> "goal", count |-> 0]

\* Variant: a slot beyond the squad names its last pick.
findPickBySquadSlotClamped(ps, slot) ==
    IF ps = <<>> \/ slot <= 0 THEN 0
    ELSE IF slot <= Len(ps) THEN slot
    ELSE Len(ps)

\* findPickBySquadSlot: the index of the pick, 0 for nullptr.  The picks
\* of a snapshot hold the squad positions 1..pickCount in order.
findPickBySquadSlot(ps, slot) ==
    IF ps = <<>> \/ slot <= 0 THEN 0
    ELSE IF slot <= Len(ps) THEN slot
    ELSE 0

\* canonicalPointsForLive(pick, live, okOut): [ok, pts].
canonicalPointsForLive(pick, live) ==
    LET exp == computeExpectedPointsExcludingBonus([pick EXCEPT !.live = live])
    IN [ok |-> exp.ok,
        pts |-> IF exp.ok THEN exp.pts + live.bonus ELSE live.totalPoints]

\* applyDemoEventToPick for the event types "goal" and "assist" (the other
\* known types are not followed): [ok, pick, pointDelta, label].  The pick
\* is written only after the event type has been recognised.
applyDemoEventToPick(pick, eventType, count) ==
    LET onPitch == [pick.live EXCEPT !.minutes = IF @ < 1 THEN 1 ELSE @]
        counted == IF eventType = "goal"
                   THEN [onPitch EXCEPT !.goalsScored = @ + count]
                   ELSE [onPitch EXCEPT !.assists = @ + count]
        oldTotal == pick.live.totalPoints
        next == [counted EXCEPT !.totalPoints = oldTotal]
        prevCanonical == canonicalPointsForLive(pick, pick.live)
        currCanonical == canonicalPointsForLive(pick, next)
        pointDelta == IF prevCanonical.ok /\ currCanonical.ok
                      THEN currCanonical.pts - prevCanonical.pts ELSE 0
    IN IF count <= 0 \/ eventType \notin {"goal", "assist"}
       THEN [ok |-> FALSE, pick |-> pick, pointDelta |-> 0, label |-> ""]
       ELSE [ok |-> TRUE,
             pick |-> [pick EXCEPT
                          !.live = [next EXCEPT
                                       !.totalPoints = oldTotal + pointDelta]],
             pointDelta |-> pointDelta,
             label |-> IF eventType = "goal" THEN "GOAL!" ELSE "ASSIST!"]

\* The mutex a called function takes (its timeout is finite in every
\* function: 20, 30, 100 or 200 ms).
mutexOf(fn) ==
    IF fn \in {"pushUiEvent", "updateSharedSquadFromPicks", "clearUiEvents"}
    THEN "uiRuntimeMutex"
    ELSE IF fn \in {"isDemoModeEnabled"} \cup SerialLines
         THEN "demoMutex"
         ELSE "sharedUiMutex"

\* The functions that write the state shared with uiTask.
WriterCalls ==
    {"setSharedStatus", "setSharedGwPoints", "setSharedGwStateText",
     "setSharedFreshness", "setSharedRankData", "setSharedGameweekContext",
     "setSharedTotalPoints", "pushUiEvent", "updateSharedSquadFromPicks",
     "clearUiEvents"}

\* The functions of fplTask and of the demo commands that take a mutex.
LockingCalls == WriterCalls \cup {"isDemoModeEnabled"}

\* The body of a writer call c with its mutex taken.  Only the version is
\* followed of the rank, the gameweek context and the total points.
writeShared(c, event, ps) ==
    /\ sharedUiState' =
          IF c.fn = "setSharedStatus"
          THEN setSharedStatus(sharedUiState, c.text, TRUE)
          ELSE IF c.fn = "setSharedGwPoints"
          THEN setSharedGwPoints(sharedUiState, c.n, TRUE)
          ELSE IF c.fn = "setSharedGwStateText"
          THEN setSharedGwStateText(sharedUiState, c.text, TRUE)
          ELSE IF c.fn = "setSharedFreshness"
          THEN setSharedFreshness(sharedUiState, c.n = 1, TRUE)
          ELSE sharedUiState
    /\ sharedVersion' =
          IF mutexOf(c.fn) = "sharedUiMutex"
          THEN incrementVersion(sharedVersion) ELSE sharedVersion
    /\ uiRuntimeState' =
          IF c.fn = "pushUiEvent" THEN pushUiEvent(uiRuntimeState, event)
          ELSE IF c.fn = "clearUiEvents" THEN clearUiEvents(uiRuntimeState)
          ELSE IF c.fn = "updateSharedSquadFromPicks"
          THEN updateSharedSquadFromPicks(uiRuntimeState, ps)
          ELSE uiRuntimeState

\* Variant: a return path without its xSemaphoreGive.
xSemaphoreGiveForgotten(mutex) == mutexOwner

\* xSemaphoreTake returning pdTRUE for task, and xSemaphoreGive.
xSemaphoreTake(mutex, task) == [mutexOwner EXCEPT ![mutex] = task]
xSemaphoreGive(mutex) == [mutexOwner EXCEPT ![mutex] = "none"]
\* xSemaphoreTake of task runs into its timeout: another task holds the
\* mutex for that long.
takeTimesOut(mutex, task) ==
    /\ mutexOwner[mutex] \notin {"none", task}
    /\ timeouts < MaxTimeouts
    /\ timeouts' = timeouts + 1

(* ------------------------------------------------------------------ *)
(* Specification of the tasks: fplTask, uiTask and the loop task       *)
(* ------------------------------------------------------------------ *)
\* The roster and the live responses of this specification: the player has
\* not played at the first poll and has played 75 minutes from the second
\* on; the gameweek is live, and every fetch of a poll succeeds.
TaskIds == <<1>>
liveOfPoll(n) == [e \in Elements |-> IF n = 1 THEN LiveStats ELSE Played75]

\* fplTask, the top of a loop iteration.
FplIterate ==
    /\ fplCalls = <<>>
    /\ fplCalls' = <<Call("isDemoModeEnabled", "", 0)>>
    /\ UNCHANGED <<timeouts, engineVars, bonusVars, taskVars, fetchVars, sinkVars,
                   mutexOwner, demoState, polls, demoModeAnnounced,
                   loopTaskVars, uiTaskVars>>

\* fplTask after isDemoModeEnabled returned enabled: the demo branch, or
\* on to WiFi.status().
fplAfterDemoCheck(enabled) ==
    IF enabled
    THEN /\ fplCalls' = IF demoModeAnnounced THEN <<>>
                        ELSE <<Call("setSharedStatus", "Demo mode active", 0),
                               Call("setSharedFreshness", "", 0)>>
         /\ demoModeAnnounced' = TRUE
    ELSE /\ fplCalls' = <<Call("WiFi.status", "", 0)>>
         /\ demoModeAnnounced' = FALSE

\* fplTask with WiFi connected and a poll due, up to the call of
\* fetchAndPrintTeamSnapshot.
FplBeginPoll ==
    /\ fplCalls # <<>>
    /\ Head(fplCalls).fn = "WiFi.status"
    /\ polls < MaxPolls
    /\ polls' = polls + 1
    /\ fplCalls' =
          <<Call("setSharedStatus", "Fetching FPL points...", 0),
            Call("setSharedGwStateText", "GW live: yes | next: 2", 0),
            Call("fetchAndPrintTeamSnapshot", "", 0)>>
    /\ UNCHANGED <<timeouts, engineVars, bonusVars, taskVars, fetchVars,
                   sinkVars, mutexOwner, demoState, demoModeAnnounced,
                   loopTaskVars, uiTaskVars>>

\* fplTask with no poll due, or with WiFi not connected and no reconnect
\* due: the iteration ends in its vTaskDelay.
FplSkipPoll ==
    /\ fplCalls # <<>>
    /\ Head(fplCalls).fn = "WiFi.status"
    /\ fplCalls' = <<>>
    /\ UNCHANGED <<timeouts, engineVars, bonusVars, taskVars, fetchVars,
                   sinkVars, mutexOwner, demoState, polls, demoModeAnnounced,
                   loopTaskVars, uiTaskVars>>

\* xSemaphoreTake of the function fplTask calls next.
FplTake ==
    /\ fplCalls # <<>>
    /\ Head(fplCalls).fn \in LockingCalls
    /\ mutexOwner[mutexOf(Head(fplCalls).fn)] = "none"
    /\ mutexOwner' = xSemaphoreTake(mutexOf(Head(fplCalls).fn), "fplTask")
    /\ UNCHANGED <<timeouts, engineVars, bonusVars, taskVars, fetchVars, sinkVars,
                   demoState, fplTaskVars, loopTaskVars, uiTaskVars>>

\* The take timed out: a setter or pushUiEvent returns without writing,
\* isDemoModeEnabled returns false.
FplTimeout ==
    /\ fplCalls # <<>>
    /\ Head(fplCalls).fn \in LockingCalls
    /\ takeTimesOut(mutexOf(Head(fplCalls).fn), "fplTask")
    /\ IF Head(fplCalls).fn = "isDemoModeEnabled"
       THEN fplAfterDemoCheck(FALSE)
       ELSE /\ fplCalls' = Tail(fplCalls)
            /\ UNCHANGED demoModeAnnounced
    /\ UNCHANGED <<engineVars, bonusVars, taskVars, fetchVars, sinkVars,
                   mutexOwner, demoState, polls, loopTaskVars, uiTaskVars>>

\* The body of the function with the mutex taken, and xSemaphoreGive.
FplBody ==
    /\ fplCalls # <<>>
    /\ Head(fplCalls).fn \in LockingCalls
    /\ mutexOwner[mutexOf(Head(fplCalls).fn)] = "fplTask"
    /\ mutexOwner' = xSemaphoreGive(mutexOf(Head(fplCalls).fn))
    /\ IF Head(fplCalls).fn = "isDemoModeEnabled"
       THEN /\ fplAfterDemoCheck(demoState.enabled)
            /\ UNCHANGED sinkVars
            /\ UNCHANGED sharedUiState
       ELSE /\ writeShared(Head(fplCalls),
                           IF Head(fplCalls).fn = "pushUiEvent"
                           THEN events[Head(fplCalls).n] ELSE UiEventItem,
                           picks)
            /\ fplCalls' = Tail(fplCalls)
            /\ UNCHANGED demoModeAnnounced
    /\ UNCHANGED <<timeouts, engineVars, bonusVars, pc, gwPoints, lastSuccessMs,
                   fetchVars, demoState, polls, loopTaskVars, uiTaskVars>>

\* fetchAndPrintTeamSnapshot returning true, and what fplTask calls then:
\* updateSharedSquadFromPicks, one pushUiEvent per notifyEvent of the pass,
\* and the setters of the branch of a successful fetch.
FplFetchSucceeds ==
    /\ fplCalls # <<>>
    /\ Head(fplCalls).fn = "fetchAndPrintTeamSnapshot"
    /\ fetchAndPrintTeamSnapshot(
           1, fetchTeamSnapshot(TaskIds, Range(TaskIds), liveOfPoll(polls),
                                elementTypeOf(TRUE), multiplierOf))
    /\ liveFound' = Range(TaskIds)
    /\ hasPlayerMeta' = TRUE
    /\ picksResponse' = TaskIds
    /\ lastSuccessMs' = 1
    /\ fplCalls' =
          <<Call("updateSharedSquadFromPicks", "", 0)>>
          \o [k \in 1..Len(events') |-> Call("pushUiEvent", "", k)]
          \o <<Call("setSharedGwPoints", "", gwPoints'),
               Call("setSharedRankData", "", 0),
               Call("setSharedGameweekContext", "", 0),
               Call("setSharedTotalPoints", "", 0),
               Call("setSharedFreshness", "", 0),
               Call("setSharedStatus", "FPL updated", 0)>>
    /\ UNCHANGED <<timeouts, pc, sharedUiState, http, sinkVars, mutexOwner, demoState, polls,
                   demoModeAnnounced, loopTaskVars, uiTaskVars>>

\* handleSerialCommandLine on one of the serial lines, up to its
\* xSemaphoreTake of demoMutex;
\* "demo seed" returns at once when its fetchTeamSnapshot fails.
handleSerialCommandLine(lines, limit) ==
    /\ loopCalls = <<>>
    /\ commands < limit
    /\ commands' = commands + 1
    /\ \E line \in lines, fetched \in BOOLEAN :
          /\ serialLineBuffer' = line
          /\ loopCalls' =
                IF \/ line = "demo seed" /\ ~fetched
                   \/ line \in EventLines /\ eventTokens(line).slot <= 0
                   \/ line \in EventLines /\ eventTokens(line).count <= 0
                THEN <<>>
                ELSE <<Call(line, "", 0)>>
    /\ UNCHANGED <<timeouts, engineVars, bonusVars, taskVars, fetchVars, sinkVars,
                   mutexOwner, demoState, fplTaskVars, uiTaskVars>>

\* processSerialInput handing a complete line to handleSerialCommandLine.
LoopCommand == handleSerialCommandLine(SerialLines, MaxCommands)

LoopTake ==
    /\ loopCalls # <<>>
    /\ mutexOwner[mutexOf(Head(loopCalls).fn)] = "none"
    /\ mutexOwner' = xSemaphoreTake(mutexOf(Head(loopCalls).fn), "loopTask")
    /\ UNCHANGED <<timeouts, engineVars, bonusVars, taskVars, fetchVars, sinkVars,
                   demoState, fplTaskVars, loopTaskVars, uiTaskVars>>

\* The take timed out: a demo command prints its failure and returns, a
\* setter or clearUiEvents returns without writing.
LoopTimeout ==
    /\ loopCalls # <<>>
    /\ takeTimesOut(mutexOf(Head(loopCalls).fn), "loopTask")
    /\ loopCalls' = IF mutexOf(Head(loopCalls).fn) = "demoMutex" THEN <<>>
                    ELSE Tail(loopCalls)
    /\ UNCHANGED <<engineVars, bonusVars, taskVars, fetchVars, sinkVars,
                   mutexOwner, demoState, fplTaskVars, commands,
                   serialLineBuffer, uiTaskVars>>

\* notifyEvent(changedPick, pointDelta, eventLabel) of an event command:
\* the pick of the slot the line names, as the command left it.
demoEvent(c) ==
    notifyEvent(
        demoState.picks[findPickBySquadSlot(
                            demoState.picks,
                            eventTokens(serialLineBuffer).slot)],
        c.n, c.text)

\* A demo command with demoMutex taken, up to its xSemaphoreGive, and the
\* calls it makes after it.
demoCommand(line) ==
    IF line = "demo seed"
    THEN    LET ps == fetchTeamSnapshot(TaskIds, Range(TaskIds), liveOfPoll(2),
                                        elementTypeOf(TRUE), multiplierOf)
                updated == [demoState EXCEPT
                               !.seeded = TRUE, !.picks = ps,
                               !.gwPoints = computeGwPointsFromPicks(ps)]
                seeded == [updated EXCEPT
                              !.seededPicks = ps,
                              !.seededGwPoints = updated.gwPoints]
            IN /\ demoState' = seeded
               /\ loopCalls' =
                     <<Call("clearUiEvents", "", 0)>>
                     \o publishDemoStateToUi(updated)
                     \o <<Call("setSharedStatus",
                               IF updated.enabled THEN "Demo mode active"
                               ELSE "Demo seeded (ready)", 0)>>
    ELSE IF line = "demo off"
    THEN /\ demoState' = [demoState EXCEPT !.enabled = FALSE]
         /\ loopCalls' =
               <<Call("setSharedStatus", "Demo mode off (live polling)", 0)>>
    ELSE IF line = "gw deadline clear"
    THEN \* Needs the demo seeded and enabled; the cleared deadline is
         \* published.
         /\ UNCHANGED demoState
         /\ loopCalls' =
               IF demoState.seeded /\ demoState.enabled
               THEN publishDemoStateToUi(demoState)
                    \o <<Call("setSharedStatus", "Demo GW context updated", 0)>>
               ELSE <<>>
    ELSE IF line \in EventLines
    THEN \* Needs the demo seeded and enabled, a slot of the squad and a
         \* known event type.
         LET tokens == eventTokens(line)
             slot == findPickBySquadSlot(demoState.picks, tokens.slot)
             applied == IF slot = 0
                        THEN [ok |-> FALSE, pick |-> TeamPick(0, 0, LiveStats, 0),
                              pointDelta |-> 0, label |-> ""]
                        ELSE applyDemoEventToPick(demoState.picks[slot],
                                                  tokens.type, tokens.count)
             changed == [demoState.picks EXCEPT ![slot] = applied.pick]
             updated == [demoState EXCEPT
                            !.picks = changed,
                            !.gwPoints = computeGwPointsFromPicks(changed)]
         IN IF ~demoState.seeded \/ ~demoState.enabled \/ slot = 0
            THEN /\ UNCHANGED demoState
                 /\ loopCalls' = <<>>
            ELSE IF ~applied.ok
            THEN \* applyDemoEventToPick worked on the pick itself.
                 /\ demoState' = [demoState EXCEPT !.picks = changed]
                 /\ loopCalls' = <<>>
            ELSE /\ demoState' = updated
                 /\ loopCalls' =
                       (IF applied.pointDelta # 0
                        THEN <<Call("pushUiEvent", applied.label,
                                    applied.pointDelta)>>
                        ELSE <<>>)
                       \o publishDemoStateToUi(updated)
                       \o <<Call("setSharedStatus", "Demo event applied", 0)>>
    ELSE IF ~demoState.seeded
    THEN /\ loopCalls' = <<>>
         /\ UNCHANGED demoState
    ELSE IF line = "demo on"
    THEN LET updated == [demoState EXCEPT !.enabled = TRUE]
         IN /\ demoState' = updated
            /\ loopCalls' =
                  publishDemoStateToUi(updated)
                  \o <<Call("setSharedStatus", "Demo mode active", 0)>>
    ELSE \* "demo reset": the picks and points go back to the seeded ones.
         LET updated == [demoState EXCEPT
                            !.picks = demoState.seededPicks,
                            !.gwPoints = demoState.seededGwPoints]
         IN /\ demoState' = updated
            /\ loopCalls' =
                  <<Call("clearUiEvents", "", 0)>>
                  \o publishDemoStateToUi(updated)
                  \o <<Call("setSharedStatus",
                            IF updated.enabled THEN "Demo mode active"
                            ELSE "Demo reset", 0)>>

LoopBody ==
    /\ loopCalls # <<>>
    /\ mutexOwner[mutexOf(Head(loopCalls).fn)] = "loopTask"
    /\ mutexOwner' = xSemaphoreGive(mutexOf(Head(loopCalls).fn))
    /\ IF mutexOf(Head(loopCalls).fn) = "demoMutex"
       THEN /\ demoCommand(Head(loopCalls).fn)
            /\ UNCHANGED <<sharedUiState, sinkVars>>
       ELSE /\ writeShared(Head(loopCalls),
                           IF Head(loopCalls).fn = "pushUiEvent"
                           THEN demoEvent(Head(loopCalls))
                           ELSE UiEventItem,
                           demoState.picks)
            /\ loopCalls' = Tail(loopCalls)
            /\ UNCHANGED demoState
    /\ UNCHANGED <<timeouts, engineVars, bonusVars, pc, gwPoints, lastSuccessMs,
                   fetchVars, fplTaskVars, commands, serialLineBuffer,
                   uiTaskVars>>

\* uiTask: readSharedUiState takes sharedUiMutex.  When the take times out
\* the iteration ends with nothing changed.
UiReadTake ==
    /\ uiPc = "readSharedUiState"
    /\ mutexOwner["sharedUiMutex"] = "none"
    /\ mutexOwner' = xSemaphoreTake("sharedUiMutex", "uiTask")
    /\ uiPc' = "out = sharedUiState"
    /\ UNCHANGED <<timeouts, engineVars, bonusVars, taskVars, fetchVars, sinkVars,
                   demoState, fplTaskVars, loopTaskVars, localState,
                   localRuntime, currentMode, tickerEvent, popupEvent, millis, popupHideAtMs>>

\* readSharedUiState: the copy and xSemaphoreGive.
UiReadCopy ==
    /\ uiPc = "out = sharedUiState"
    /\ localState' = sharedUiState
    /\ mutexOwner' = xSemaphoreGive("sharedUiMutex")
    /\ uiPc' = "snapshotUiRuntime"
    /\ UNCHANGED <<timeouts, engineVars, bonusVars, taskVars, fetchVars, sinkVars,
                   demoState, fplTaskVars, loopTaskVars, localRuntime,
                   currentMode, tickerEvent, popupEvent, millis, popupHideAtMs>>

\* snapshotUiRuntime: memset(&out, 0, sizeof(out)), and the take of
\* uiRuntimeMutex succeeds.
UiSnapshotTake ==
    /\ uiPc = "snapshotUiRuntime"
    /\ mutexOwner["uiRuntimeMutex"] = "none"
    /\ localRuntime' = UiRuntimeState
    /\ mutexOwner' = xSemaphoreTake("uiRuntimeMutex", "uiTask")
    /\ uiPc' = "out = uiRuntimeState"
    /\ UNCHANGED <<timeouts, engineVars, bonusVars, taskVars, fetchVars, sinkVars,
                   demoState, fplTaskVars, loopTaskVars, localState,
                   currentMode, tickerEvent, popupEvent, millis, popupHideAtMs>>

\* snapshotUiRuntime: memset(&out, 0, sizeof(out)), and the take times out.
UiSnapshotTimeout ==
    /\ uiPc = "snapshotUiRuntime"
    /\ takeTimesOut("uiRuntimeMutex", "uiTask")
    /\ localRuntime' = UiRuntimeState
    /\ uiPc' = "updateModeUi"
    /\ UNCHANGED <<engineVars, bonusVars, taskVars, fetchVars, sinkVars,
                   mutexOwner, demoState, fplTaskVars, loopTaskVars,
                   localState, currentMode, tickerEvent, popupEvent, millis, popupHideAtMs>>

UiSnapshotCopy ==
    /\ uiPc = "out = uiRuntimeState"
    /\ localRuntime' = uiRuntimeState
    /\ mutexOwner' = xSemaphoreGive("uiRuntimeMutex")
    /\ uiPc' = "updateModeUi"
    /\ UNCHANGED <<timeouts, engineVars, bonusVars, taskVars, fetchVars, sinkVars,
                   demoState, fplTaskVars, loopTaskVars, localState,
                   currentMode, tickerEvent, popupEvent, millis, popupHideAtMs>>

\* updateModeUi(localState, localRuntime) as far as the ticker goes (newest
\* event, or "No events yet"), then the mode: an expired popup returns to
\* Live, and outside a popup determineAutoMode returns Live (the gameweek
\* is live).
UiUpdateMode ==
    /\ uiPc = "updateModeUi"
    /\ tickerEvent' =
          IF localRuntime.recentEvents = <<>> THEN UiEventItem
          ELSE localRuntime.recentEvents[Len(localRuntime.recentEvents)]
    /\ IF currentMode = "EventPopup"
       THEN /\ currentMode' \in {"EventPopup", "Live"}
            /\ popupHideAtMs' =
                  IF currentMode' = "Live" THEN 0 ELSE popupHideAtMs
            /\ uiPc' = "readSharedUiState"
       ELSE /\ currentMode' = "Live"
            /\ UNCHANGED popupHideAtMs
            /\ uiPc' = "popUiPopup"
    /\ UNCHANGED <<timeouts, engineVars, bonusVars, taskVars, fetchVars, sinkVars,
                   mutexOwner, demoState, fplTaskVars, loopTaskVars,
                   localState, localRuntime, popupEvent, millis>>

UiPopTake ==
    /\ uiPc = "popUiPopup"
    /\ mutexOwner["uiRuntimeMutex"] = "none"
    /\ mutexOwner' = xSemaphoreTake("uiRuntimeMutex", "uiTask")
    /\ uiPc' = "popupCount == 0"
    /\ UNCHANGED <<timeouts, engineVars, bonusVars, taskVars, fetchVars, sinkVars,
                   demoState, fplTaskVars, loopTaskVars, localState,
                   localRuntime, currentMode, tickerEvent, popupEvent, millis, popupHideAtMs>>

UiPopTimeout ==
    /\ uiPc = "popUiPopup"
    /\ takeTimesOut("uiRuntimeMutex", "uiTask")
    /\ uiPc' = "readSharedUiState"
    /\ UNCHANGED <<engineVars, bonusVars, taskVars, fetchVars, sinkVars,
                   mutexOwner, demoState, fplTaskVars, loopTaskVars,
                   localState, localRuntime, currentMode, tickerEvent, popupEvent, millis, popupHideAtMs>>

\* popUiPopup with the mutex taken: nothing to pop, or the head leaves the
\* ring and showPopupEvent loads the popup.
UiPopBody ==
    /\ uiPc = "popupCount == 0"
    /\ mutexOwner' = xSemaphoreGive("uiRuntimeMutex")
    /\ IF uiRuntimeState.popupCount = 0
       THEN UNCHANGED <<uiRuntimeState, currentMode, popupEvent,
                        popupHideAtMs>>
       ELSE /\ uiRuntimeState' = popUiPopup(uiRuntimeState)
            /\ popupEvent' =
                  uiRuntimeState.popupQueue[uiRuntimeState.popupHead]
            /\ currentMode' = "EventPopup"
            /\ popupHideAtMs' = popupDeadline(millis)
    /\ uiPc' = "readSharedUiState"
    /\ UNCHANGED <<timeouts, engineVars, bonusVars, taskVars, fetchVars, sharedVersion,
                   demoState, fplTaskVars, loopTaskVars, localState,
                   localRuntime, tickerEvent, millis>>

\* The steps of uiTask.
NextUi ==
    \/ UiReadTake
    \/ UiReadCopy
    \/ UiSnapshotTake
    \/ UiSnapshotTimeout
    \/ UiSnapshotCopy
    \/ UiUpdateMode
    \/ UiPopTake
    \/ UiPopTimeout
    \/ UiPopBody

\* fplTask polling with its fetches succeeding and uiTask rendering, the
\* serial line silent.
NextTasks ==
    \/ FplIterate
    \/ FplTake
    \/ FplTimeout
    \/ FplBody
    \/ FplBeginPoll
    \/ FplSkipPoll
    \/ FplFetchSucceeds
    \/ NextUi

\* The default build: FPL_USE_SERVER_EVENT_BREAKDOWN is 1.
InitTasks == Init /\ mode = "A"

SpecTasks == InitTasks /\ [][NextTasks]_vars

\* Demo commands arriving on the serial line while uiTask renders and
\* fplTask has no poll to make.
NextSerial ==
    \/ FplIterate
    \/ FplTake
    \/ FplTimeout
    \/ FplBody
    \/ FplSkipPoll
    \/ LoopCommand
    \/ LoopTake
    \/ LoopTimeout
    \/ LoopBody
    \/ NextUi

SpecSerial == InitTasks /\ [][NextSerial]_vars

(* ------------------------------------------------------------------ *)
(* Specification of the demo commands                                   *)
(* ------------------------------------------------------------------ *)
\* processSerialInput handing one of up to MaxDemoCommands lines to
\* handleSerialCommandLine.
DemoCommand == handleSerialCommandLine(SerialLines, MaxDemoCommands)

\* The loop task handling serial lines one after the other while fplTask
\* asks isDemoModeEnabled at the top of each iteration and has no poll to
\* make.
NextDemo ==
    \/ DemoCommand
    \/ LoopTake
    \/ LoopTimeout
    \/ LoopBody
    \/ FplIterate
    \/ FplTake
    \/ FplTimeout
    \/ FplBody
    \/ FplSkipPoll

SpecDemo == InitTasks /\ [][NextDemo]_vars

\* The lines that seed the demo state and switch demo mode.
DemoModeLines == {"demo seed", "demo on", "demo off"}

DemoModeCommand == handleSerialCommandLine(DemoModeLines, MaxDemoCommands)

\* The loop task switching demo mode while fplTask polls, its fetches
\* succeeding.
NextDemoPoll ==
    \/ DemoModeCommand
    \/ LoopTake
    \/ LoopTimeout
    \/ LoopBody
    \/ FplIterate
    \/ FplTake
    \/ FplTimeout
    \/ FplBody
    \/ FplBeginPoll
    \/ FplSkipPoll
    \/ FplFetchSucceeds

SpecDemoPoll == InitTasks /\ [][NextDemoPoll]_vars

(* ------------------------------------------------------------------ *)
(* Specification of the UI: event sink, popup queue and mode machine    *)
(* ------------------------------------------------------------------ *)
\* enum class UiMode.
UiModes ==
    {"Idle", "Deadline", "FinalHour", "Live", "EventPopup", "EventsList",
     "Squad"}

\* The modes in which uiTask leaves the screen alone.
HeldModes == {"EventsList", "Squad", "EventPopup"}

\* What determineAutoMode reads of the deadline: none (or no clock yet),
\* within the hour, within six hours, further away.
Deadlines == {"none", "hour", "six hours", "later"}

\* The events notified in this specification: a goal and an assist of one
\* midfielder.
SinkEvents ==
    {notifyEvent(TeamPick(1, 3, Played75, 1), 5, "GOAL!"),
     notifyEvent(TeamPick(1, 3, Played75, 1), 3, "ASSIST!")}

\* determineAutoMode(state) with currentMode = current.
determineAutoMode(current, isLiveGw, deadline) ==
    IF current \in HeldModes THEN current
    ELSE IF isLiveGw THEN "Live"
    ELSE IF deadline = "none" THEN "Idle"
    ELSE IF deadline = "hour" THEN "FinalHour"
    ELSE IF deadline = "six hours" THEN "Deadline"
    ELSE "Idle"

\* notifyEvent: pushUiEvent takes uiRuntimeMutex and stores the event.
\* Here events holds the events pushed since the list was last cleared.
NotifyEvent ==
    /\ uiRuntimeState.eventVersion < MaxSinkCalls
    /\ \E e \in SinkEvents :
          /\ uiRuntimeState' = pushUiEvent(uiRuntimeState, e)
          /\ events' = Append(events, e)
    /\ UNCHANGED <<mode, lastPickStates, snapshotGw, picks, passLog,
                   bonusVars, taskVars, fetchVars, sharedVersion, mutexOwner,
                   timeouts, demoState, fplTaskVars, loopTaskVars,
                   uiTaskVars>>

\* clearUiEvents with uiRuntimeMutex taken ("demo seed", "demo reset").
ClearEvents ==
    /\ uiRuntimeState.eventVersion < MaxSinkCalls
    /\ uiRuntimeState' = clearUiEvents(uiRuntimeState)
    /\ events' = <<>>
    /\ UNCHANGED <<mode, lastPickStates, snapshotGw, picks, passLog,
                   bonusVars, taskVars, fetchVars, sharedVersion, mutexOwner,
                   timeouts, demoState, fplTaskVars, loopTaskVars,
                   uiTaskVars>>

\* One iteration of uiTask in which every take succeeds at once:
\* readSharedUiState, snapshotUiRuntime, updateModeUi, the automatic mode,
\* popUiPopup and showPopupEvent in mode Live, and the popup timer; the
\* iteration ends in its vTaskDelay.
uiTaskIteration(isLiveGw, deadline) ==
    LET autoMode == determineAutoMode(currentMode, isLiveGw, deadline)
        loaded == IF currentMode \notin HeldModes THEN autoMode
                  ELSE currentMode
        popped == loaded = "Live" /\ uiRuntimeState.popupCount > 0
        shown == IF popped THEN "EventPopup" ELSE loaded
        hideAt == IF popped THEN popupDeadline(millis) ELSE popupHideAtMs
        expired == shown = "EventPopup" /\ hideAt > 0 /\ millis >= hideAt
    IN /\ uiPc = "readSharedUiState"
       /\ localState' = sharedUiState
       /\ localRuntime' = uiRuntimeState
       /\ tickerEvent' =
             IF uiRuntimeState.recentEvents = <<>> THEN UiEventItem
             ELSE uiRuntimeState.recentEvents[Len(uiRuntimeState.recentEvents)]
       /\ uiRuntimeState' =
             IF popped THEN popUiPopup(uiRuntimeState) ELSE uiRuntimeState
       /\ popupEvent' =
             IF popped THEN uiRuntimeState.popupQueue[uiRuntimeState.popupHead]
             ELSE popupEvent
       /\ currentMode' = IF expired THEN "Live" ELSE shown
       /\ popupHideAtMs' = IF expired THEN 0 ELSE hideAt
       /\ uiPc' = "vTaskDelay"
       /\ UNCHANGED <<engineVars, bonusVars, taskVars, fetchVars,
                      sharedVersion, mutexOwner, timeouts, demoState,
                      fplTaskVars, loopTaskVars, millis>>

UiTick ==
    \E isLiveGw \in BOOLEAN, deadline \in Deadlines :
        uiTaskIteration(isLiveGw, deadline)

\* The touch callbacks lv_timer_handler runs: each belongs to a widget of
\* one screen.
touch(from, to) ==
    /\ currentMode = from
    /\ currentMode' = to
    /\ UNCHANGED <<engineVars, bonusVars, taskVars, fetchVars, sinkVars,
                   mutexOwner, timeouts, demoState, fplTaskVars,
                   loopTaskVars, uiPc, localState, localRuntime, tickerEvent,
                   popupEvent, millis, popupHideAtMs>>

showEventsEventCb == touch("Live", "EventsList")
showSquadFromHold == touch("Live", "Squad")
backFromEventsCb == touch("EventsList", "Live")
backFromSquadCb == touch("Squad", "Live")

\* The vTaskDelay of uiTask passes: the unit of the clock of this
\* specification is one delay of uiTask, so the clock advances by one per
\* iteration.
MillisAdvance ==
    /\ uiPc = "vTaskDelay"
    /\ uiPc' = "readSharedUiState"
    /\ millis' = (millis + 1) % MillisModulus
    /\ UNCHANGED <<engineVars, bonusVars, taskVars, fetchVars, sinkVars,
                   mutexOwner, timeouts, demoState, fplTaskVars,
                   loopTaskVars, localState, localRuntime, currentMode,
                   tickerEvent, popupEvent, popupHideAtMs>>

NextUiModes ==
    \/ NotifyEvent
    \/ ClearEvents
    \/ UiTick
    \/ showEventsEventCb
    \/ showSquadFromHold
    \/ backFromEventsCb
    \/ backFromSquadCb
    \/ MillisAdvance

SpecUi == InitTasks /\ [][NextUiModes]_vars

\* uiTask is scheduled for ever: its iterations and its delays keep
\* happening.
SpecUiFair == SpecUi /\ WF_vars(UiTick) /\ WF_vars(MillisAdvance)

(* ------------------------------------------------------------------ *)
(* Properties                                                           *)
(* ------------------------------------------------------------------ *)
\* Picks of the latest pass that had a baseline (Tracked players).
Tracked == {i \in DOMAIN passLog : ~passLog[i].first}

\* The total of pick i differs from its baseline's.
TotalChanged(i) == picks[i].live.totalPoints # passLog[i].prev.totalPoints

\* The events of pick i with one of the labels, in emission order.
EventsLabelled(i, labels) ==
    SelectSeq(passLog[i].events, LAMBDA e : e.label \in labels)

\* Valid slots keyed (gameweek of the latest pass, element of pick i).
SlotsOf(i) ==
    {s \in Slots : /\ lastPickStates[s].valid
                   /\ lastPickStates[s].gw = snapshotGw
                   /\ lastPickStates[s].elementId = picks[i].elementId}

\* C1 (as claimed): a pick that had no valid slot keyed (gameweek, element)
\* when the pass reached it emits no event and leaves a valid slot keyed
\* (gameweek, element) holding its snapshot, so that it is Tracked on the
\* next pass.  Fails when every slot holds another player of the gameweek.
C1_FirstObservationStoresBaseline ==
    \A i \in DOMAIN passLog :
        passLog[i].first =>
            /\ passLog[i].events = <<>>
            /\ \E s \in SlotsOf(i) : lastPickStates[s].live = picks[i].live

\* C2: after a pass, every slot the table retains for a player of the
\* roster holds that player's current snapshot, and a player that was
\* Tracked or was given a slot has one, whether or not the events explain
\* the change of the total.
C2_RetainedEqualsCurrent ==
    \A i \in DOMAIN passLog :
        /\ \A s \in SlotsOf(i) : lastPickStates[s].live = picks[i].live
        /\ passLog[i].slot # 0 => SlotsOf(i) # {}

\* C2 witness: a Tracked player whose total changed, whose events do not
\* add up to the change, and whose slot now holds the current snapshot.
C2_Witness ==
    \E i \in Tracked :
        /\ TotalChanged(i)
        /\ explained(passLog[i].events)
              # picks[i].live.totalPoints - passLog[i].prev.totalPoints
        /\ lastPickStates[passLog[i].slot].live = picks[i].live
        /\ passLog[i].prev # picks[i].live

\* Breakdown member and event label of the non-minutes categories of the
\* breakdown mode.
BreakdownCategories ==
    {<<"brGoalsPts", "GOAL!">>, <<"brAssistsPts", "ASSIST!">>,
     <<"brCleanSheetPts", "CLEAN SHEET!">>, <<"brSavesPts", "SAVE BONUS!">>,
     <<"brPenSavedPts", "PEN SAVE!">>, <<"brDefContribPts", "DEF CON!">>,
     <<"brBonusPts", "BONUS PTS!">>, <<"brGoalsConcededPts", "goals against">>,
     <<"brPenMissedPts", "PEN MISS!">>, <<"brYellowPts", "YELLOW!">>,
     <<"brRedPts", "RED!">>, <<"brOwnGoalPts", "OWN GOAL!">>,
     <<"brOtherPts", "other scoring rule">>}

\* Pick i emitted exactly one event labelled label, carrying d, when
\* wanted, and none labelled label otherwise.
OneEventIff(i, label, wanted, d) ==
    LET es == EventsLabelled(i, {label})
    IN IF wanted THEN Len(es) = 1 /\ es[1].delta = d ELSE es = <<>>

BreakdownDelta(i, c) == picks[i].live[c[1]] - passLog[i].prev[c[1]]

\* C3 (as claimed): in the breakdown mode every Tracked pair, with no
\* further precondition, yields for each non-minutes category exactly one
\* event carrying the category delta when it is nonzero, and none when zero.
C3_EveryPairEmitsCategoryDeltas ==
    mode = "A" =>
        \A i \in Tracked : \A c \in BreakdownCategories :
            OneEventIff(i, c[2], BreakdownDelta(i, c) # 0, BreakdownDelta(i, c))

\* C3 (amended): the same for every Tracked pair whose total_points changed.
C3_ChangedPairEmitsCategoryDeltas ==
    mode = "A" =>
        \A i \in Tracked :
            TotalChanged(i) =>
                \A c \in BreakdownCategories :
                    OneEventIff(i, c[2], BreakdownDelta(i, c) # 0,
                                BreakdownDelta(i, c))

\* C3 witness: a Tracked pair of the breakdown mode with a changed total,
\* a yellow card against a goal (-1 where the previous snapshot had +4).
C3_Witness ==
    /\ mode = "A"
    /\ \E i \in Tracked :
          /\ TotalChanged(i)
          /\ passLog[i].prev.brGoalsPts = 4 /\ picks[i].live.brGoalsPts = 0
          /\ picks[i].live.brYellowPts = -1
          /\ \E k \in DOMAIN passLog[i].events :
                passLog[i].events[k].label = "GOAL!"
                /\ passLog[i].events[k].delta = -4
          /\ \E k \in DOMAIN passLog[i].events :
                passLog[i].events[k].label = "YELLOW!"
                /\ passLog[i].events[k].delta = -1

\* Counter, event label and points per occurrence of the categories the
\* inferred mode values linearly, for role t.
LinearCategories(t) ==
    {<<"goalsScored", "GOAL!", goalPointsForElementType(t)>>,
     <<"assists", "ASSIST!", 3>>,
     <<"cleanSheets", "CLEAN SHEET!", cleanSheetPointsForElementType(t)>>,
     <<"yellowCards", "YELLOW!", -1>>, <<"redCards", "RED!", -3>>,
     <<"ownGoals", "OWN GOAL!", -2>>, <<"penaltiesMissed", "PEN MISS!", -2>>,
     <<"bonus", "BONUS PTS!", 1>>}

CounterDelta(i, c) == picks[i].live[c[1]] - passLog[i].prev[c[1]]

\* C4 (as claimed): in the inferred mode every Tracked pair yields, for
\* each linearly valued category, exactly one event carrying the computed
\* delta (counter delta x value) whenever that delta is nonzero, of either
\* sign.
C4_EveryNonzeroDeltaIsOneEvent ==
    mode = "B" =>
        \A i \in Tracked : \A c \in LinearCategories(picks[i].elementType) :
            c[3] * CounterDelta(i, c) # 0 =>
                OneEventIff(i, c[2], TRUE, c[3] * CounterDelta(i, c))

\* C4 (amended): for a Tracked pair whose total_points changed, a category
\* whose counter increased and whose computed delta is nonzero yields
\* exactly one event carrying that delta; a counter that did not increase
\* yields none.
C4_IncreasesAreOneEvent ==
    mode = "B" =>
        \A i \in Tracked :
            TotalChanged(i) =>
                \A c \in LinearCategories(picks[i].elementType) :
                    /\ CounterDelta(i, c) > 0 /\ c[3] * CounterDelta(i, c) # 0 =>
                          OneEventIff(i, c[2], TRUE, c[3] * CounterDelta(i, c))
                    /\ CounterDelta(i, c) <= 0 => OneEventIff(i, c[2], FALSE, 0)

\* C4 witness: a forward's second goal with a changed total, one event of
\* 4 points.
C4_Witness ==
    /\ mode = "B"
    /\ \E i \in Tracked :
          /\ TotalChanged(i)
          /\ picks[i].elementType = 4
          /\ passLog[i].prev.goalsScored = 1 /\ picks[i].live.goalsScored = 2
          /\ EventsLabelled(i, {"GOAL!"}) # <<>>
          /\ EventsLabelled(i, {"GOAL!"})[1].delta = 4

\* Chunk difference of a counter at a threshold, for pick i.
ChunkDelta(i, counter, threshold) ==
    (picks[i].live[counter] \div threshold)
        - (passLog[i].prev[counter] \div threshold)

\* Counter, event label, threshold and points per chunk of the chunked
\* categories that apply to role t.
ChunkCategories(t) ==
    (IF t = 1 THEN {<<"saves", "SAVE BONUS!", 3, 1>>} ELSE {})
    \cup (IF t = 2 THEN {<<"defensiveContributions", "DEF CON!", 10, 2>>} ELSE {})
    \cup (IF t \in {3, 4}
          THEN {<<"defensiveContributions", "DEF CON!", 12, 2>>} ELSE {})
    \cup (IF t \in {1, 2} THEN {<<"goalsConceded", "goals against", 2, -1>>} ELSE {})

ChunkLabels == {"SAVE BONUS!", "DEF CON!", "goals against"}

\* C5 (as claimed): in the inferred mode every Tracked pair yields, for each
\* chunked category of the role, exactly one event of (points per chunk) x
\* (chunk difference) if the difference is nonzero, and none otherwise.
C5_EveryChunkDifferenceIsOneEvent ==
    mode = "B" =>
        \A i \in Tracked : \A c \in ChunkCategories(picks[i].elementType) :
            OneEventIff(i, c[2], ChunkDelta(i, c[1], c[3]) # 0,
                        c[4] * ChunkDelta(i, c[1], c[3]))

\* C5 (amended): for a Tracked pair whose total_points changed, each chunked
\* category of the role yields exactly one event of (points per chunk) x
\* (chunk difference) if the difference is positive and none otherwise, and
\* a category that does not apply to the role yields none.
C5_PositiveChunkDifferenceIsOneEvent ==
    mode = "B" =>
        \A i \in Tracked :
            TotalChanged(i) =>
                LET cats == ChunkCategories(picks[i].elementType)
                IN /\ \A c \in cats :
                         OneEventIff(i, c[2], ChunkDelta(i, c[1], c[3]) > 0,
                                     c[4] * ChunkDelta(i, c[1], c[3]))
                   /\ \A l \in ChunkLabels \ {c[2] : c \in cats} :
                         OneEventIff(i, l, FALSE, 0)

\* C5 witness: a goalkeeper's saves going from 2 to 8 with a changed total,
\* one single event of +2.
C5_Witness ==
    /\ mode = "B"
    /\ \E i \in Tracked :
          /\ TotalChanged(i)
          /\ picks[i].elementType = 1
          /\ passLog[i].prev.saves = 2 /\ picks[i].live.saves = 8
          /\ Len(EventsLabelled(i, {"SAVE BONUS!"})) = 1
          /\ EventsLabelled(i, {"SAVE BONUS!"})[1].delta = 2

MinutesLabels == {"PLAYING!", "60+ mins!"}

\* Label and delta of the events of pick i that carry a minutes label.
MinutesEvents(i) ==
    LET es == EventsLabelled(i, MinutesLabels)
    IN [k \in DOMAIN es |-> <<es[k].label, es[k].delta>>]

MinutesPtsDelta(i) == picks[i].live.brMinutesPts - passLog[i].prev.brMinutesPts

Crossed(i, threshold) ==
    passLog[i].prev.minutes < threshold /\ picks[i].live.minutes >= threshold

\* The minutes events claimed for a breakdown minutes delta d of pick i.
DecomposedMinutes(i, d) ==
    LET app == Crossed(i, 1) /\ d > 0
        afterApp == IF app THEN d - 1 ELSE d
        sixty == Crossed(i, 60) /\ afterApp > 0
        rest == IF sixty THEN afterApp - 1 ELSE afterApp
    IN IF d > 0
       THEN (IF app THEN << <<"PLAYING!", 1>> >> ELSE <<>>)
            \o (IF sixty THEN << <<"60+ mins!", 1>> >> ELSE <<>>)
            \o (IF rest # 0 THEN << <<"60+ mins!", rest>> >> ELSE <<>>)
       ELSE IF d < 0 THEN << <<"60+ mins!", d>> >> ELSE <<>>

RECURSIVE SumOfDeltas(_)
SumOfDeltas(es) == IF es = <<>> THEN 0 ELSE es[1][2] + SumOfDeltas(Tail(es))

\* C6 (as claimed): in the breakdown mode every Tracked pair with a minutes
\* category delta d emits, for d > 0, the appearance point, the 60-minute
\* point and the remainder in that order, and for d < 0 one event of d; the
\* minutes events sum to d.
C6_EveryPairDecomposesMinutes ==
    mode = "A" =>
        \A i \in Tracked :
            /\ MinutesEvents(i) = DecomposedMinutes(i, MinutesPtsDelta(i))
            /\ SumOfDeltas(MinutesEvents(i)) = MinutesPtsDelta(i)

\* C6 (amended): the same for every Tracked pair whose total_points changed.
C6_ChangedPairDecomposesMinutes ==
    mode = "A" =>
        \A i \in Tracked :
            TotalChanged(i) =>
                /\ MinutesEvents(i) = DecomposedMinutes(i, MinutesPtsDelta(i))
                /\ SumOfDeltas(MinutesEvents(i)) = MinutesPtsDelta(i)

\* C6 witness: a defender whose minutes go from 0 to 75 with a minutes
\* delta of +2 and a changed total: +1 appearance, then +1 60+ mins.
C6_Witness ==
    /\ mode = "A"
    /\ \E i \in Tracked :
          /\ TotalChanged(i)
          /\ picks[i].elementType = 2
          /\ passLog[i].prev.minutes = 0 /\ picks[i].live.minutes = 75
          /\ MinutesPtsDelta(i) = 2
          /\ MinutesEvents(i) = << <<"PLAYING!", 1>>, <<"60+ mins!", 1>> >>

\* The minutes events claimed for the counter thresholds of pick i.
ThresholdMinutes(i) ==
    (IF Crossed(i, 1) THEN << <<"PLAYING!", 1>> >> ELSE <<>>)
    \o (IF Crossed(i, 60) THEN << <<"60+ mins!", 1>> >> ELSE <<>>)

\* C7 (as claimed): in the inferred mode every Tracked pair emits exactly
\* one +1 event per minutes threshold crossed (previous < 1 <= current,
\* previous < 60 <= current), the appearance first.
C7_EveryCrossingIsOneEvent ==
    mode = "B" => \A i \in Tracked : MinutesEvents(i) = ThresholdMinutes(i)

\* C7 (amended): the same for every Tracked pair whose total_points changed.
C7_ChangedPairCrossingIsOneEvent ==
    mode = "B" =>
        \A i \in Tracked :
            TotalChanged(i) => MinutesEvents(i) = ThresholdMinutes(i)

\* C7 witness: minutes going from 0 to 75 with a changed total: +1
\* appearance, then +1 60+ mins.
C7_Witness ==
    /\ mode = "B"
    /\ \E i \in Tracked :
          /\ TotalChanged(i)
          /\ passLog[i].prev.minutes = 0 /\ picks[i].live.minutes = 75
          /\ MinutesEvents(i) = << <<"PLAYING!", 1>>, <<"60+ mins!", 1>> >>

\* C9: a snapshot with bonus = 0 resolves, for every role, to its
\* total_points with projected = false and alreadyIncluded = true.
C9_NoDoubleCounting ==
    bonusResult.called /\ bonusPick.live.bonus = 0 =>
        bonusResult = BonusResult(bonusPick.live.totalPoints, FALSE, TRUE)

\* C9 witness: a resolved snapshot of a recognised role with bonus = 0
\* whose total is not the expected total of its counters.
C9_Witness ==
    /\ bonusResult.called
    /\ bonusPick.live.bonus = 0
    /\ bonusPick.elementType \in 1..4
    /\ computeExpectedPointsExcludingBonus(bonusPick).pts
          # bonusPick.live.totalPoints
    /\ bonusResult.points = bonusPick.live.totalPoints
    /\ bonusResult.bonusAlreadyIncluded

\* C10: for a recognised role and bonus > 0, a total equal to the expected
\* total plus the bonus resolves to (total, false, true); otherwise a total
\* equal to the expected total resolves to (total + bonus, true, false).
C10_BonusExactMatch ==
    LET live == bonusPick.live
        noBonus == computeExpectedPointsExcludingBonus(bonusPick).pts
        withBonus == noBonus + live.bonus
    IN bonusResult.called /\ bonusPick.elementType \in 1..4 /\ live.bonus > 0 =>
          IF live.totalPoints = withBonus
          THEN bonusResult = BonusResult(live.totalPoints, FALSE, TRUE)
          ELSE live.totalPoints = noBonus =>
                  bonusResult = BonusResult(live.totalPoints + live.bonus,
                                            TRUE, FALSE)

\* C10 witness: a resolved snapshot of a recognised role with bonus > 0 and
\* a total equal to the expected total without bonus, projected.
C10_Witness ==
    /\ bonusResult.called
    /\ bonusPick.elementType \in 1..4
    /\ bonusPick.live.bonus > 0
    /\ bonusPick.live.totalPoints
          = computeExpectedPointsExcludingBonus(bonusPick).pts
    /\ bonusResult.projectedBonusAdded
    /\ bonusResult.points = bonusPick.live.totalPoints + bonusPick.live.bonus

\* C11: for a recognised role and bonus > 0, a total equal to neither the
\* expected total nor the expected total plus the bonus is projected
\* (total + bonus, true, false) exactly when it is at least as close to the
\* expected total as to the expected total plus the bonus, a tie included,
\* and resolves to (total, false, true) otherwise.
C11_BonusHeuristicTieProjects ==
    LET live == bonusPick.live
        noBonus == computeExpectedPointsExcludingBonus(bonusPick).pts
        withBonus == noBonus + live.bonus
        dNo == IF live.totalPoints >= noBonus
               THEN live.totalPoints - noBonus ELSE noBonus - live.totalPoints
        dWith == IF live.totalPoints >= withBonus
                 THEN live.totalPoints - withBonus
                 ELSE withBonus - live.totalPoints
    IN /\ bonusResult.called
       /\ bonusPick.elementType \in 1..4
       /\ live.bonus > 0
       /\ live.totalPoints \notin {noBonus, withBonus}
       => IF dNo <= dWith
          THEN bonusResult = BonusResult(live.totalPoints + live.bonus,
                                         TRUE, FALSE)
          ELSE bonusResult = BonusResult(live.totalPoints, FALSE, TRUE)

\* C11 witness: a defender with an expected total of 6, bonus 2 and a
\* reported total of 7, resolved as projected with 9 points.
C11_Witness ==
    /\ bonusResult.called
    /\ bonusPick.elementType = 2
    /\ computeExpectedPointsExcludingBonus(bonusPick).pts = 6
    /\ bonusPick.live.bonus = 2
    /\ bonusPick.live.totalPoints = 7
    /\ bonusResult = BonusResult(9, TRUE, FALSE)

\* C12: the expected total is reported not ok exactly for a role outside
\* 1..4, and the resolution of a pick of such a role is its total_points
\* with projected = false and alreadyIncluded = true for every bonus.
C12_UnknownRoleReturnsRawTotal ==
    bonusResult.called =>
        /\ computeExpectedPointsExcludingBonus(bonusPick).ok
              <=> bonusPick.elementType \in 1..4
        /\ bonusPick.elementType \notin 1..4 =>
              bonusResult = BonusResult(bonusPick.live.totalPoints, FALSE, TRUE)

\* C12 witness: a resolved pick of an unknown role with bonus > 0 and a
\* total of 0, which a recognised role would see projected.
C12_Witness ==
    /\ bonusResult.called
    /\ bonusPick.elementType \notin 1..4
    /\ bonusPick.live.bonus > 0
    /\ bonusPick.live.totalPoints = 0
    /\ bonusResult = BonusResult(0, FALSE, TRUE)

\* Points of the expected total for one more goal of pick p.
ExpectedGoalStep(p) ==
    computeExpectedPointsExcludingBonus(
        [p EXCEPT !.live.goalsScored = @ + 1]).pts
      - computeExpectedPointsExcludingBonus(p).pts

\* One goal is worth goalValue[t] for role t: in the expected total of
\* every pick of the pass, and in the goal event of the inferred mode for
\* a Tracked pick whose total changed and whose goals increased.
GoalValueIs(goalValue) ==
    \A i \in DOMAIN picks :
        picks[i].elementType \in 1..4 =>
            /\ ExpectedGoalStep(picks[i]) = goalValue[picks[i].elementType]
            /\ mode = "B" /\ i \in Tracked /\ TotalChanged(i)
                  /\ picks[i].live.goalsScored > passLog[i].prev.goalsScored
               => OneEventIff(i, "GOAL!", TRUE,
                     goalValue[picks[i].elementType]
                       * (picks[i].live.goalsScored
                            - passLog[i].prev.goalsScored))

\* C13 (as claimed): one goal is worth 6 points for a goalkeeper and for a
\* defender, 5 for a midfielder and 4 for a forward, in the expected total
\* and in the goal event of the inferred mode.
C13_GoalkeeperGoalWorthSix == GoalValueIs(<<6, 6, 5, 4>>)

\* C13 (amended): one goal is worth 10 points for a goalkeeper, 6 for a
\* defender, 5 for a midfielder and 4 for a forward, in the expected total
\* and in the goal event of the inferred mode.
C13_GoalkeeperGoalWorthTen == GoalValueIs(<<10, 6, 5, 4>>)

\* C13 witness: a goalkeeper's first goal in the inferred mode, one event
\* of 10 points.
C13_Witness ==
    /\ mode = "B"
    /\ \E i \in Tracked :
          /\ TotalChanged(i)
          /\ picks[i].elementType = 1
          /\ passLog[i].prev.goalsScored = 0 /\ picks[i].live.goalsScored = 1
          /\ Len(EventsLabelled(i, {"GOAL!"})) = 1
          /\ EventsLabelled(i, {"GOAL!"})[1].delta = 10
          /\ ExpectedGoalStep(picks[i]) = 10

\* The expected total as claimed for a pick of role 1..4 with non-negative
\* counters (goal and clean-sheet values of the scoring rule table).
ClaimedExpectedPoints(p) ==
    LET l == p.live
        t == p.elementType
    IN (IF l.minutes > 0 THEN 1 ELSE 0)
       + (IF l.minutes >= 60 THEN 1 ELSE 0)
       + goalPointsForElementType(t) * l.goalsScored
       + 3 * l.assists
       + (IF t \in {1, 2} THEN 4 ELSE IF t = 3 THEN 1 ELSE 0) * l.cleanSheets
       + 5 * l.penaltiesSaved
       + (IF t = 1 THEN l.saves \div 3 ELSE 0)
       + (IF t = 2 THEN 2 * (l.defensiveContributions \div 10)
          ELSE IF t \in {3, 4} THEN 2 * (l.defensiveContributions \div 12)
          ELSE 0)
       - (IF t \in {1, 2} THEN l.goalsConceded \div 2 ELSE 0)
       - 2 * l.penaltiesMissed
       - l.yellowCards
       - 3 * l.redCards
       - 2 * l.ownGoals

\* C14 (as claimed): for every role in 1..4 the expected total used by the
\* bonus resolution is the claimed sum, in which a saved penalty counts 5
\* for every role.  Fails for a defender, midfielder or forward with a
\* saved penalty.
C14_ExpectedPointsAsClaimed ==
    /\ bonusResult.called
    /\ bonusPick.elementType \in 1..4
    /\ bonusPick.live.bonus > 0
    => computeExpectedPointsExcludingBonus(bonusPick).pts
          = ClaimedExpectedPoints(bonusPick)

\* The events of a whole pass: those of its picks, in roster order.
RECURSIVE EventsOfPicks(_)
EventsOfPicks(log) ==
    IF log = <<>> THEN <<>> ELSE Head(log).events \o EventsOfPicks(Tail(log))

\* The events of pick i do not add up to the change of its total.
Residual(i) ==
    /\ TotalChanged(i)
    /\ explained(passLog[i].events)
          # picks[i].live.totalPoints - passLog[i].prev.totalPoints

\* Every category event of pick i that its mode computes has been emitted.
ComputableEventsEmitted(i) ==
    IF mode = "A"
    THEN /\ MinutesEvents(i) = DecomposedMinutes(i, MinutesPtsDelta(i))
         /\ \A c \in BreakdownCategories :
               OneEventIff(i, c[2], BreakdownDelta(i, c) # 0,
                           BreakdownDelta(i, c))
    ELSE /\ MinutesEvents(i) = ThresholdMinutes(i)
         /\ \A c \in LinearCategories(picks[i].elementType) :
               CounterDelta(i, c) > 0 /\ c[3] * CounterDelta(i, c) # 0 =>
                   OneEventIff(i, c[2], TRUE, c[3] * CounterDelta(i, c))
         /\ \A c \in ChunkCategories(picks[i].elementType) :
               OneEventIff(i, c[2], ChunkDelta(i, c[1], c[3]) > 0,
                           c[4] * ChunkDelta(i, c[1], c[3]))

\* Pick j of the pass has been processed: a Tracked pick has its computable
\* events emitted when its total changed and its slot advanced, a first
\* observed pick that found a slot is stored.
Processed(j) ==
    /\ passLog[j].slot # 0 =>
          lastPickStates[passLog[j].slot].live = picks[j].live
    /\ j \in Tracked /\ TotalChanged(j) => ComputableEventsEmitted(j)

\* C15: in both modes, when the events of a Tracked player do not add up to
\* the change of the total, every event the mode computes for the player is
\* still emitted and is part of the events of the pass, the player's
\* retained snapshot is the current one, and every roster player after it
\* is processed in the same pass.
C15_ResidualIsNotFatal ==
    /\ Len(passLog) = Len(picks)
    /\ events = EventsOfPicks(passLog)
    /\ \A i \in Tracked :
          Residual(i) =>
              /\ ComputableEventsEmitted(i)
              /\ lastPickStates[passLog[i].slot].live = picks[i].live
              /\ \A j \in DOMAIN picks : j > i => Processed(j)

\* C15 witness: a pass over two Tracked players in which the first leaves a
\* residual after emitting events and the second emits events too.
C15_Witness ==
    /\ Len(picks) = 2
    /\ Tracked = {1, 2}
    /\ Residual(1)
    /\ passLog[1].events # <<>>
    /\ passLog[2].events # <<>>
    /\ lastPickStates[passLog[1].slot].live = picks[1].live
    /\ lastPickStates[passLog[2].slot].live = picks[2].live

\* C16: a pass whose current snapshot of a player is identical to the one
\* the previous pass of the same gameweek processed for that player emits no
\* event for the player: the change already turned into events is not
\* replayed.
C16_IdenticalSnapshotEmitsNothing ==
    [][\A i \in DOMAIN picks : \A j \in DOMAIN picks' :
          /\ snapshotGw' = snapshotGw
          /\ picks'[j].elementId = picks[i].elementId
          /\ picks'[j].live = picks[i].live
          => passLog'[j].events = <<>>]_vars

\* C16 witness: a Tracked player polled again with the snapshot its
\* baseline already holds, a snapshot other than LiveStats{}.
C16_Witness ==
    \E i \in Tracked :
        /\ passLog[i].prev = picks[i].live
        /\ picks[i].live # LiveStats
        /\ passLog[i].events = <<>>

\* The labels in the order of their categories: minutes (appearance, then
\* 60 minutes), goals, assists, clean sheet, saves, pen-save, defensive
\* contribution, bonus, goals conceded, pen-miss, yellow, red, own goal,
\* other.
CategoryOrder ==
    <<"PLAYING!", "60+ mins!", "GOAL!", "ASSIST!", "CLEAN SHEET!",
      "SAVE BONUS!", "PEN SAVE!", "DEF CON!", "BONUS PTS!", "goals against",
      "PEN MISS!", "YELLOW!", "RED!", "OWN GOAL!", "other scoring rule">>

Rank(label) == CHOOSE r \in DOMAIN CategoryOrder : CategoryOrder[r] = label

\* Position in the roster of the latest pass of the player of event e.
RosterPosition(e) == CHOOSE i \in DOMAIN picks : picks[i].elementId = e.player

\* C17: within a pass the events of one player follow the category order
\* (no 'other' in the inferred mode), and the events of a player come
\* before those of every player later in the roster.
C17_EventOrder ==
    /\ \A i \in DOMAIN passLog :
          LET es == passLog[i].events
          IN /\ \A k \in DOMAIN es :
                   /\ es[k].label \in Range(CategoryOrder)
                   /\ es[k].player = picks[i].elementId
                   /\ mode = "B" => es[k].label # "other scoring rule"
             /\ \A k, l \in DOMAIN es :
                   k < l => Rank(es[k].label) <= Rank(es[l].label)
    /\ \A k, l \in DOMAIN events :
          k < l => RosterPosition(events[k]) <= RosterPosition(events[l])
    /\ Len(events) = Len(EventsOfPicks(passLog))

\* C17 witness: a pass in which two players each emit an event of every
\* category of the mode.
C17_Witness ==
    /\ Len(picks) = 2
    /\ \A i \in {1, 2} :
          /\ i \in Tracked
          /\ {"PLAYING!", "60+ mins!", "GOAL!", "ASSIST!", "CLEAN SHEET!",
              "PEN SAVE!", "BONUS PTS!", "goals against", "PEN MISS!",
              "YELLOW!", "RED!", "OWN GOAL!"}
                \subseteq {passLog[i].events[k].label :
                               k \in DOMAIN passLog[i].events}
    /\ \E k \in DOMAIN events : events[k].player = picks[1].elementId
    /\ \E k \in DOMAIN events : events[k].player = picks[2].elementId

\* C18: a poll cycle whose fetch failed does not run the engine.  No step
\* outside the branch of a successful fetch changes the state table, the
\* latest pass (its picks, events and log) or the published gameweek points,
\* and from the failed fetch on, only the status text and the freshness flag
\* of the shared state change; the next poll therefore reconciles against
\* the table the failed cycle found.
C18_FailedPollLeavesEngineUntouched ==
    [][/\ (pc # "publish" /\ pc' # "publish") =>
              /\ UNCHANGED <<lastPickStates, snapshotGw, picks, events, passLog>>
              /\ sharedUiState'.gwPoints = sharedUiState.gwPoints
       /\ (pc \in {"fetch", "failed"} /\ pc' # "publish") =>
              sharedUiState'.gwStateText = sharedUiState.gwStateText]_vars

\* C18 witness: a failed cycle has ended after passes that tracked players
\* and emitted events; the table, the events and the published points of the
\* last successful poll are still there.
C18_Witness ==
    /\ pc = "idle"
    /\ sharedUiState.statusText = "FPL fetch failed"
    /\ ~sharedUiState.isStale
    /\ lastSuccessMs = 1
    /\ events # <<>>
    /\ Tracked # {}
    /\ \A i \in DOMAIN picks : SlotsOf(i) # {}
    /\ sharedUiState.gwPoints > 0

\* C19 (as claimed): whenever the engine has run on a poll, the live
\* response of that poll listed every roster player and the metadata fetch
\* that gives the roles succeeded, so that no pick of the pass carries a
\* zero-filled snapshot or a defaulted role.  Fails: fetchLivePointsForPicks
\* returns true when a roster player is not in the response, and a failed
\* fetchPlayerMetaForPicks does not fail fetchTeamSnapshot.
C19_EngineRunsOnCompleteSnapshotsOnly ==
    pc = "publish" =>
        /\ \A i \in DOMAIN picks : picks[i].elementId \in liveFound
        /\ hasPlayerMeta
        /\ \A i \in DOMAIN picks : picks[i].elementType \in 1..4

\* resolveBonus(player).effectivePoints: the raw total, plus the bonus when
\* it is projected.
EffectivePoints(p) ==
    p.live.totalPoints
    + (IF adjustedLivePointsWithProjectedBonus(p).projectedBonusAdded
       THEN p.live.bonus ELSE 0)

RECURSIVE SumOver(_, _)
SumOver(f, S) ==
    IF S = {} THEN 0
    ELSE LET x == CHOOSE x \in S : TRUE
         IN f[x] + SumOver(f, S \ {x})

\* The sum over the roster of the latest poll of effective points x
\* multiplier: a function of that poll's picks alone.
RosterTotal ==
    SumOver([i \in DOMAIN picks |-> EffectivePoints(picks[i]) * picks[i].multiplier],
            DOMAIN picks)

\* C20 (as claimed): the publishing step of a successful poll leaves the
\* roster total of that poll as the published gameweek points.  Fails when
\* setSharedGwPoints cannot take the mutex within its timeout: the write is
\* dropped and the earlier value stays published.
C20_PublishedTotalIsRosterTotal ==
    [][pc = "publish" => sharedUiState'.gwPoints = RosterTotal]_vars

\* C20 (amended): the total a successful poll hands to setSharedGwPoints is
\* the roster total of that poll's picks, whatever the retained table, the
\* mode and the events of the pass; the published gameweek points become
\* that total, or keep their value when the write is dropped.
C20_ComputedTotalIsRosterTotal ==
    [][pc = "publish" =>
          /\ gwPoints = RosterTotal
          /\ sharedUiState'.gwPoints \in {RosterTotal, sharedUiState.gwPoints}]_vars

\* C20 witness: the total of a captained goalkeeper with a projected bonus
\* (2 x (16 + 2)) and a starter (1 x 2) is published, after a pass that had
\* retained state and emitted events.
C20_Witness ==
    /\ pc = "idle"
    /\ Len(picks) = 2
    /\ picks[1].live = Haul /\ picks[1].elementType = 1 /\ picks[1].multiplier = 2
    /\ adjustedLivePointsWithProjectedBonus(picks[1]).projectedBonusAdded
    /\ picks[2].live = Played75 /\ picks[2].multiplier = 1
    /\ RosterTotal = 38
    /\ sharedUiState.gwPoints = RosterTotal
    /\ Tracked # {}
    /\ events # <<>>

\* The last n entries of a sequence.
LastOf(seq, n) == SubSeq(seq, Len(seq) - n + 1, Len(seq))

\* fplTask has made every pushUiEvent call of its latest pass and stands
\* before the setters of the successful branch.
PassHandedOver ==
    /\ fplCalls # <<>>
    /\ Head(fplCalls).fn = "setSharedGwPoints"

\* C21: after a reconciliation pass the events it emitted are the newest
\* entries of the shared recent-events list, in emission order, as far as
\* the window of kMaxUiEvents entries reaches, whatever uiTask did in
\* between.
C21_EmittedEventsReachTheSink ==
    PassHandedOver =>
        LET n == IF Len(events) < kMaxUiEvents THEN Len(events)
                 ELSE kMaxUiEvents
        IN /\ Len(uiRuntimeState.recentEvents) >= n
           /\ LastOf(uiRuntimeState.recentEvents, n) = LastOf(events, n)

\* C22: the shared UI state changes only in a step of the task holding
\* sharedUiMutex, and such a write adds exactly one to the version; the
\* runtime event state changes only in a step of the task holding
\* uiRuntimeMutex, a change of the recent events adds exactly one to
\* eventVersion and a change of the squad rows exactly one to squadVersion;
\* no version decreases; the steps of uiTask (its two copies and the pop)
\* change no version; and a take that times out changes neither the data
\* nor a version.
C22_WritesLockedAndVersioned ==
    [][ /\ (sharedUiState' # sharedUiState \/ sharedVersion' # sharedVersion)
            => /\ mutexOwner["sharedUiMutex"] \in {"fplTask", "loopTask"}
               /\ mutexOwner'["sharedUiMutex"] = "none"
               /\ sharedVersion' = sharedVersion + 1
        /\ uiRuntimeState' # uiRuntimeState
            => /\ mutexOwner["uiRuntimeMutex"] # "none"
               /\ mutexOwner'["uiRuntimeMutex"] = "none"
        /\ (\/ uiRuntimeState'.recentEvents # uiRuntimeState.recentEvents
            \/ uiRuntimeState'.eventVersion # uiRuntimeState.eventVersion)
            => uiRuntimeState'.eventVersion = uiRuntimeState.eventVersion + 1
        /\ (\/ uiRuntimeState'.squadRows # uiRuntimeState.squadRows
            \/ uiRuntimeState'.squadVersion # uiRuntimeState.squadVersion)
            => uiRuntimeState'.squadVersion = uiRuntimeState.squadVersion + 1
        /\ (uiPc' # uiPc \/ timeouts' # timeouts)
            => /\ UNCHANGED <<sharedUiState, sharedVersion>>
               /\ uiRuntimeState'.eventVersion = uiRuntimeState.eventVersion
               /\ uiRuntimeState'.squadVersion = uiRuntimeState.squadVersion
               /\ uiRuntimeState'.recentEvents = uiRuntimeState.recentEvents
               /\ uiRuntimeState'.squadRows = uiRuntimeState.squadRows
      ]_vars

\* The first poll is over and one of its eight setter calls found
\* sharedUiMutex taken; the squad rows were written and uiTask has copied
\* the shared state.
C22_Witness ==
    /\ polls = 1
    /\ fplCalls = <<>>
    /\ sharedVersion = 7
    /\ timeouts = 1
    /\ uiRuntimeState.squadVersion = 1
    /\ localState # SharedUiState

\* C23: a step of uiTask in which a take runs into its timeout ends the
\* tick: the local copies, the rendered ticker and the mode stay as they
\* were, and nothing is rendered before the next readSharedUiState.
C23_TimedOutReadIsSkipped ==
    [][ (timeouts' # timeouts /\ uiPc' # uiPc)
            => /\ uiPc' = "readSharedUiState"
               /\ UNCHANGED <<localState, localRuntime, tickerEvent,
                              currentMode>>
      ]_vars

\* A snapshot without server breakdown: every breakdown member is 0.
NoBreakdown(live) == \A f \in BreakdownFields : live[f] = 0

\* C24: a Tracked player whose previous and current snapshots carry no
\* server breakdown is reconciled as Mode B does it, from the raw counters,
\* whatever the build.
C24_NoBreakdownFallsBackToInferred ==
    \A i \in Tracked :
        (NoBreakdown(passLog[i].prev) /\ NoBreakdown(picks[i].live))
            => passLog[i].events =
                  trackedEvents("B", picks[i], passLog[i].prev, picks[i].live)

\* C25: every event a pass emits has a point delta other than 0, whatever
\* the role of the player.
C25_EveryEventHasNonzeroDelta ==
    \A k \in DOMAIN events : events[k].delta # 0

\* C26: a player first observed in a gameweek is given a slot by the pass,
\* a free or foreign-gameweek one or else an evicted one, and the table
\* holds an entry keyed (gameweek, element) for it afterwards.
C26_FirstObservedPlayerGetsASlot ==
    \A i \in DOMAIN passLog :
        passLog[i].first => (passLog[i].slot # 0 /\ SlotsOf(i) # {})

\* C27: the roster of a poll is the picks array of the response up to the
\* capacity, in response order; every kept pick is reconciled and the
\* total is computed over the kept picks, so the poll is not skipped; and
\* no pick is given a slot outside the table.
C27_RosterTruncatedToCapacity ==
    picksResponse # <<>> =>
        /\ Len(picks) = (IF Len(picksResponse) < PicksCapacity
                         THEN Len(picksResponse) ELSE PicksCapacity)
        /\ \A i \in DOMAIN picks : picks[i].elementId = picksResponse[i]
        /\ DOMAIN passLog = DOMAIN picks
        /\ \A i \in DOMAIN passLog : passLog[i].slot \in 0..TableSlots
        /\ gwPoints = computeGwPointsFromPicks(picks)
        /\ sharedUiState.statusText = "FPL updated"

\* The picks array listed more players than the capacity and the poll went
\* through with the first PicksCapacity of them.
C27_Witness ==
    /\ Len(picksResponse) > PicksCapacity
    /\ Len(picks) = PicksCapacity
    /\ sharedUiState.statusText = "FPL updated"

\* The mutexes a task holds.
HeldBy(task) == {m \in Mutexes : mutexOwner[m] = task}

\* The task is executing a function that takes mutex m (for uiTask: it
\* stands between the take and the give of that function).
InCriticalSection(task, m) ==
    IF task = "fplTask"
    THEN fplCalls # <<>> /\ Head(fplCalls).fn \in LockingCalls
         /\ mutexOf(Head(fplCalls).fn) = m
    ELSE IF task = "loopTask"
    THEN loopCalls # <<>> /\ mutexOf(Head(loopCalls).fn) = m
    ELSE \/ m = "sharedUiMutex" /\ uiPc = "out = sharedUiState"
         \/ m = "uiRuntimeMutex"
            /\ uiPc \in {"out = uiRuntimeState", "popupCount == 0"}

\* The step of the task that ends its critical section can be taken.
CanGive(task) ==
    IF task = "fplTask" THEN ENABLED FplBody
    ELSE IF task = "loopTask" THEN ENABLED LoopBody
    ELSE ENABLED (UiReadCopy \/ UiSnapshotCopy \/ UiPopBody)

C29_AtMostTwoGets ==
    /\ Len(http.gets) <= 2
    /\ \A k \in 1..(Len(http.gets) - 1) : http.gets[k] \in ShortReads

\* C30: a Tracked player whose total_points is the one of the retained
\* snapshot emits no event in the pass, whatever else changed between the
\* two snapshots, and its slot holds the current snapshot afterwards.
C30_UnchangedTotalEmitsNothing ==
    \A i \in Tracked :
        ~TotalChanged(i) =>
            /\ passLog[i].events = <<>>
            /\ lastPickStates[passLog[i].slot].live = picks[i].live

\* A Tracked player with the same total and other minutes, counters or
\* breakdown points than in the retained snapshot.
C30_Witness ==
    \E i \in Tracked :
        /\ ~TotalChanged(i)
        /\ passLog[i].prev # picks[i].live
        /\ passLog[i].prev.minutes < 60 /\ picks[i].live.minutes >= 60
        /\ passLog[i].events = <<>>
        /\ lastPickStates[passLog[i].slot].live = picks[i].live

\* The sum over the 14 breakdown categories (minutes and other included)
\* of current.breakdown - previous.breakdown, for pick i.
BreakdownDifference(i) ==
    SumOver([f \in BreakdownFields |->
                picks[i].live[f] - passLog[i].prev[f]], BreakdownFields)

\* "pointDelta - explained": the gap detectAndNotifyPointChangesFromBreakdown
\* logs for pick i when it is not zero.
BreakdownGap(i) ==
    (picks[i].live.totalPoints - passLog[i].prev.totalPoints)
        - explained(passLog[i].events)

\* C31: in every pass of the breakdown mode, for a Tracked player whose
\* total_points changed, the deltas of the emitted events add up to the sum
\* over all 14 breakdown categories of current - previous, so the logged
\* gap is the change of the total minus that breakdown difference.
C31_BreakdownAccountingIdentity ==
    mode = "A" =>
        \A i \in Tracked :
            TotalChanged(i) =>
                /\ explained(passLog[i].events) = BreakdownDifference(i)
                /\ BreakdownGap(i)
                      = (picks[i].live.totalPoints
                            - passLog[i].prev.totalPoints)
                        - BreakdownDifference(i)

\* C31 witness: a Tracked pair of the breakdown mode that crosses both
\* minutes thresholds with two minutes points and loses an "other" point
\* while the total rises by 5: three events that add up to 1, gap 4.
C31_Witness ==
    /\ mode = "A"
    /\ \E i \in Tracked :
          /\ picks[i].live.totalPoints - passLog[i].prev.totalPoints = 5
          /\ passLog[i].prev.minutes = 0 /\ picks[i].live.minutes = 75
          /\ picks[i].live.brMinutesPts = 2
          /\ passLog[i].prev.brOtherPts = 1
          /\ Len(passLog[i].events) = 3
          /\ explained(passLog[i].events) = 1
          /\ BreakdownGap(i) = 4

\* No counter of pick i is lower in the current snapshot than in its
\* baseline.
CountersDoNotDecrease(i) ==
    \A f \in CounterFields \ {"totalPoints"} :
        picks[i].live[f] >= passLog[i].prev[f]

\* expectedPointsExcludingBonus + bonus of pick i with snapshot live.
RuleTablePoints(i, live) ==
    computeExpectedPointsExcludingBonus(
        [picks[i] EXCEPT !.live = live]).pts + live.bonus

\* C32 (as claimed): in the inferred mode, for a Tracked player of a
\* recognised role whose counters did not decrease and whose total_points
\* changed, the deltas of the emitted events add up to the difference of
\* expectedPointsExcludingBonus + bonus between the current and the
\* previous snapshot.  Fails for a defender, midfielder or forward with a
\* saved penalty: the pass notifies 5 points the rule table does not count.
C32_InferredEventsMatchRuleTable ==
    mode = "B" =>
        \A i \in Tracked :
            /\ picks[i].elementType \in 1..4
            /\ CountersDoNotDecrease(i)
            /\ TotalChanged(i)
            => explained(passLog[i].events)
                  = RuleTablePoints(i, picks[i].live)
                      - RuleTablePoints(i, passLog[i].prev)

\* C33: for every snapshot and role, a call of
\* adjustedLivePointsWithProjectedBonus sets exactly one of projected and
\* alreadyIncluded, returns total_points + (projected ? bonus : 0), and
\* projects only when bonus > 0 and the role is recognised, so that the
\* returned points are never less than total_points.
C33_BonusOutputShape ==
    bonusResult.called =>
        /\ bonusResult.projectedBonusAdded # bonusResult.bonusAlreadyIncluded
        /\ bonusResult.points
              = bonusPick.live.totalPoints
                  + (IF bonusResult.projectedBonusAdded
                     THEN bonusPick.live.bonus ELSE 0)
        /\ bonusResult.projectedBonusAdded =>
              /\ bonusPick.live.bonus > 0
              /\ bonusPick.elementType \in 1..4
        /\ bonusResult.points >= bonusPick.live.totalPoints

\* C33 witness: a midfielder whose total is neither the expected total nor
\* the expected total plus bonus, nearer to the former: the bonus is
\* projected, alreadyIncluded is cleared and the points exceed the total.
C33_Witness ==
    /\ bonusResult.called
    /\ bonusPick.elementType = 3
    /\ bonusPick.live.bonus = 3
    /\ bonusPick.live.totalPoints
          = computeExpectedPointsExcludingBonus(bonusPick).pts + 1
    /\ bonusResult.projectedBonusAdded
    /\ ~bonusResult.bonusAlreadyIncluded
    /\ bonusResult.points = bonusPick.live.totalPoints + 3

\* No two valid slots of the table hold the same (gameweek, element) key.
KeysUnique(table) ==
    \A s, r \in Slots :
        s # r /\ table[s].valid /\ table[r].valid =>
            <<table[s].gw, table[s].elementId>>
                # <<table[r].gw, table[r].elementId>>

\* Every picks response of 1..PicksCapacity + 1 picks, repeated element
\* ids included.
AnyRosters == UNION {[1..n -> Elements] : n \in 1..(PicksCapacity + 1)}

\* The table a pass of the build's mode leaves for gameweek gw and the
\* picks response ids, started from the current table.
TableAfterPass(gw, ids) ==
    passLoop(mode, gw,
             fetchTeamSnapshot(ids, Range(ids), [e \in Elements |-> Haul],
                               elementTypeOf(TRUE), multiplierOf),
             1, lastPickStates, <<>>, <<>>).table

\* C34: in every reachable state of the per-player table no two valid
\* slots hold the same (gameweek, element id) key, and a further pass for
\* any gameweek and any roster, repeated ids included, keeps it so.
C34_TableKeysUnique ==
    /\ KeysUnique(lastPickStates)
    /\ \A gw \in Gws, ids \in AnyRosters :
          KeysUnique(TableAfterPass(gw, ids))

\* C34 witness: after passes of two gameweeks two valid slots hold the same
\* player under different gameweeks, the nearest the keys come to
\* colliding.
C34_Witness ==
    /\ passLog # <<>>
    /\ \E s, r \in Slots :
          /\ s # r
          /\ lastPickStates[s].valid /\ lastPickStates[r].valid
          /\ lastPickStates[s].elementId = lastPickStates[r].elementId
          /\ lastPickStates[s].gw # lastPickStates[r].gw

\* The element ids of a picks array.
ElementsOf(ps) == {ps[i].elementId : i \in DOMAIN ps}

\* C35: a pass for gameweek g over a roster of at most TableSlots distinct
\* players, started from a table whose slots of gameweek g hold players of
\* that roster only (which is the case when every earlier pass of g used
\* the same roster), leaves every roster player with a valid slot keyed
\* (g, element id); slots of another gameweek count as free, so this
\* includes the first pass after a rollover.
C35_FullTrackingAfterOnePass ==
    [][(/\ picks' # <<>>
        /\ Cardinality(ElementsOf(picks')) = Len(picks')
        /\ Len(picks') <= TableSlots
        /\ \A s \in Slots :
              lastPickStates[s].valid /\ lastPickStates[s].gw = snapshotGw'
                  => lastPickStates[s].elementId \in ElementsOf(picks'))
       => \A i \in DOMAIN picks' :
              \E s \in Slots :
                  /\ lastPickStates'[s].valid
                  /\ lastPickStates'[s].gw = snapshotGw'
                  /\ lastPickStates'[s].elementId = picks'[i].elementId
                  /\ lastPickStates'[s].live = picks'[i].live]_vars

\* C35 witness: the first pass after a rollover.  The one roster player is
\* first observed and takes slot 1 while every other slot still holds a
\* valid entry of another gameweek; a later slot is only ever filled while
\* slot 1 holds an entry of the same gameweek, so slot 1 held an entry of
\* that other gameweek when the pass began.
C35_Witness ==
    /\ Len(passLog) = 1
    /\ passLog[1].first /\ passLog[1].slot = 1
    /\ SlotsOf(1) = {1}
    /\ \A s \in Slots \ {1} :
          lastPickStates[s].valid /\ lastPickStates[s].gw # snapshotGw

\* C36: the recent-events list never holds more than kMaxUiEvents events,
\* and after n pushes since the last clear it holds exactly the last
\* min(n, kMaxUiEvents) pushed events in push order.
C36_RecentEventsWindow ==
    /\ Len(uiRuntimeState.recentEvents) <= kMaxUiEvents
    /\ uiRuntimeState.recentEvents
          = LastOf(events, IF Len(events) < kMaxUiEvents THEN Len(events)
                           ELSE kMaxUiEvents)

\* C36 witness: one push more than the list holds, of events that differ:
\* the oldest event is gone and the rest have moved down by one.
C36_Witness ==
    /\ Len(events) = kMaxUiEvents + 1
    /\ events[1] # events[2]
    /\ uiRuntimeState.recentEvents = Tail(events)
    /\ uiRuntimeState.recentEvents[1] = events[2]

\* The pending popups of the ring, oldest first.
PendingPopups(runtime) ==
    [k \in 1..runtime.popupCount |->
        runtime.popupQueue[(runtime.popupHead + k - 1) % kMaxPopupEvents]]

\* The step pushes an event, or clears the lists.
IsPush == Len(events') = Len(events) + 1
IsClear ==
    uiRuntimeState'.eventVersion # uiRuntimeState.eventVersion /\ ~IsPush

\* C37: the popup ring is a bounded FIFO.  The counters stay in range with
\* popupTail = (popupHead + popupCount) mod kMaxPopupEvents; a push enqueues
\* its event behind the pending ones unless kMaxPopupEvents are pending,
\* when it enqueues nothing and keeps the pending ones, and in both cases
\* appends the event to the recent-events list; a pop returns the oldest
\* pending popup and leaves the rest; with nothing pending a tick of uiTask
\* changes nothing of the runtime event state.
C37_PopupQueueIsBoundedFifo ==
    /\ [](/\ uiRuntimeState.popupCount \in 0..kMaxPopupEvents
          /\ uiRuntimeState.popupHead \in 0..(kMaxPopupEvents - 1)
          /\ uiRuntimeState.popupTail \in 0..(kMaxPopupEvents - 1)
          /\ uiRuntimeState.popupTail
                = (uiRuntimeState.popupHead + uiRuntimeState.popupCount)
                      % kMaxPopupEvents)
    /\ [][/\ IsPush =>
               /\ PendingPopups(uiRuntimeState')
                     = IF uiRuntimeState.popupCount < kMaxPopupEvents
                       THEN Append(PendingPopups(uiRuntimeState),
                                   events'[Len(events')])
                       ELSE PendingPopups(uiRuntimeState)
               /\ uiRuntimeState'.recentEvents
                     [Len(uiRuntimeState'.recentEvents)]
                     = events'[Len(events')]
          /\ IsClear => PendingPopups(uiRuntimeState') = <<>>
          /\ ~IsPush /\ ~IsClear /\ uiRuntimeState.popupCount > 0
                 /\ uiRuntimeState' # uiRuntimeState =>
               /\ popupEvent' = Head(PendingPopups(uiRuntimeState))
               /\ PendingPopups(uiRuntimeState')
                     = Tail(PendingPopups(uiRuntimeState))
               /\ uiRuntimeState'.recentEvents = uiRuntimeState.recentEvents
          /\ ~IsPush /\ ~IsClear /\ uiRuntimeState.popupCount = 0 =>
               /\ uiRuntimeState' = uiRuntimeState
               /\ popupEvent' = popupEvent]_vars

\* C37 witness: the ring is full and has wrapped (a popup was popped and
\* shown, and pushes have filled the ring again), and one more event was
\* pushed than the ring could take: it is the newest recent event and is
\* not the newest pending popup.
C37_Witness ==
    /\ uiRuntimeState.popupCount = kMaxPopupEvents
    /\ uiRuntimeState.popupHead = 1
    /\ uiRuntimeState.popupTail = 1
    /\ popupEvent = events[1]
    /\ Len(events) = kMaxPopupEvents + 2
    /\ uiRuntimeState.recentEvents[Len(uiRuntimeState.recentEvents)]
          = events[Len(events)]
    /\ PendingPopups(uiRuntimeState)[kMaxPopupEvents] # events[Len(events)]

\* The step takes a popup from the ring.
IsPop ==
    /\ uiRuntimeState'.eventVersion = uiRuntimeState.eventVersion
    /\ uiRuntimeState'.popupCount < uiRuntimeState.popupCount

\* The oldest pending popup is e.
PopupPending(e) ==
    /\ uiRuntimeState.popupCount > 0
    /\ uiRuntimeState.popupQueue[uiRuntimeState.popupHead] = e

\* A step that takes a popup from the ring starts outside the held modes
\* and ends in EventPopup with that popup on the screen.
PopShowsPopup ==
    IsPop =>
        /\ currentMode \notin HeldModes
        /\ currentMode' = "EventPopup"
        /\ popupEvent' = uiRuntimeState.popupQueue[uiRuntimeState.popupHead]

\* A step that starts in a held mode takes no popup, and changes the mode
\* only to Live, from EventPopup only with the popup timer expired.
HeldModeIsKept ==
    currentMode \in HeldModes =>
        /\ ~IsPop
        /\ currentMode' # currentMode =>
              /\ currentMode' = "Live"
              /\ currentMode = "EventPopup" =>
                    popupHideAtMs > 0 /\ millis >= popupHideAtMs

\* C38 (as claimed): a popup is dequeued only by an iteration of uiTask
\* that finds the mode outside EventPopup, EventsList and Squad, and the
\* iteration leaves the mode at EventPopup with that popup on the screen;
\* in EventPopup, EventsList and Squad no popup is dequeued and the mode
\* changes only to Live (back button, or the popup timer having expired);
\* the mode always leaves EventPopup again, and when the mode stays in Live
\* and EventPopup every pending popup is eventually on the screen, unless
\* the queue is cleared first.  Fails when millis() + 4000 wraps: the popup
\* is hidden in the iteration that shows it, or (sum 0) never.
C38_UiModeMachine ==
    /\ [][PopShowsPopup]_vars
    /\ [][HeldModeIsKept]_vars
    /\ (currentMode = "EventPopup") ~> (currentMode = "Live")
    /\ <>[](currentMode \in {"Live", "EventPopup"}) =>
          \A e \in SinkEvents :
              PopupPending(e) ~>
                  \/ currentMode = "EventPopup" /\ popupEvent = e
                  \/ uiRuntimeState.popupCount = 0


\* A step of the loop task that ends the demo command `line`: the body of
\* the command under demoMutex, or the timeout of its take.
EndsCommand(line) ==
    /\ loopCalls # <<>>
    /\ Head(loopCalls).fn = line
    /\ loopCalls' # loopCalls

\* The command changed nothing, calls nothing more and does not hold
\* demoMutex.
CommandRejected ==
    /\ demoState' = demoState
    /\ sharedUiState' = sharedUiState
    /\ sharedVersion' = sharedVersion
    /\ uiRuntimeState' = uiRuntimeState
    /\ loopCalls' = <<>>
    /\ mutexOwner'["demoMutex"] # "loopTask"

DemoCommandsAreGated ==
    /\ \A line \in {"demo on", "demo reset"} :
          EndsCommand(line) /\ ~demoState.seeded => CommandRejected
    /\ \A line \in EventLines \cup {"gw deadline clear"} :
          EndsCommand(line) /\ ~(demoState.seeded /\ demoState.enabled)
              => CommandRejected
    /\ \A line \in {"event 99 goal", "event 1 xyz"} :
          EndsCommand(line) => CommandRejected
    /\ commands' = commands + 1 /\ serialLineBuffer' = "event 1 goal 0"
          => CommandRejected /\ mutexOwner' = mutexOwner

\* C39: "demo on" and "demo reset" without a seeded demo state, an event or
\* gw command without a seeded and enabled demo state, an event command
\* naming an unknown slot or an unknown event type, and an event command
\* with a count of zero leave the demo state, the shared UI state and the
\* event lists as they were, make no further call and leave demoMutex
\* released.
C39_DemoCommandGating == [][DemoCommandsAreGated]_vars

\* An unknown slot was rejected with the demo seeded and enabled.
C39_Witness ==
    /\ demoState.seeded
    /\ demoState.enabled
    /\ serialLineBuffer = "event 99 goal"
    /\ loopCalls = <<>>
    /\ mutexOwner["demoMutex"] = "none"


\* "demo on" has published the demo state and no "demo off" has followed.
DemoPublished ==
    /\ demoState.enabled
    /\ ~(serialLineBuffer = "demo on" /\ loopCalls # <<>>)

\* What fplTask writes of a poll's result.
LivePollCalls ==
    {"setSharedGwPoints", "setSharedRankData", "setSharedTotalPoints",
     "setSharedGameweekContext", "updateSharedSquadFromPicks", "pushUiEvent"}

\* fplTask writes a result of its poll with the mutex taken.
FplWritesLiveResult ==
    /\ fplCalls # <<>>
    /\ Head(fplCalls).fn \in LivePollCalls
    /\ mutexOwner[mutexOf(Head(fplCalls).fn)] = "fplTask"
    /\ fplCalls' = Tail(fplCalls)

\* fplTask runs the pass of the engine over a fetched snapshot.
FplRunsEngine ==
    /\ fplCalls # <<>>
    /\ Head(fplCalls).fn = "fetchAndPrintTeamSnapshot"
    /\ fplCalls' # fplCalls

DemoIsolatesUi == DemoPublished => ~(FplWritesLiveResult \/ FplRunsEngine)

\* C40: while the demo state is published and enabled, fplTask writes no
\* result of a poll to the shared UI state or the event lists and does not
\* run the engine, whatever the interleaving of the two tasks.
C40_DemoIsolatesUiFromPolling == [][DemoIsolatesUi]_vars

====
